---- MODULE Spec2Model ----
(***************************************************************************)
(* Red Converter: the transformation registry, the pipeline engine         *)
(* (executePipeline) and the pipeline risk analyzer (analyzePipeline).     *)
(*                                                                         *)
(* Text is a sequence of UTF-16 code units (naturals), as a JavaScript     *)
(* string is.  A call that may throw returns [ok |-> TRUE, val |-> text]   *)
(* or [ok |-> FALSE, err |-> message]; a message is the tuple of the parts *)
(* of the template literal that builds it.                                 *)
(***************************************************************************)
EXTENDS Integers, Sequences, FiniteSets, TLC

VARIABLES pc, input, steps, idx, currentValue, results, finalOutput, warnings,
          catalog, listMode, cursor, listed,
          detectInput, maxDepth, detected, scored, current, depth, layers,
          md5Input, md5Bytes,
          fileContent, promise, uuids,
          isOnline, showIndicator, timers,
          historyStore, entries, searchQuery, activeTab, loading, pending,
          pageInput, pageOutput, pipeline

\* the state of a pipeline call (executePipeline, analyzePipeline)
pipelineVars == <<input, steps, idx, currentValue, results, finalOutput, warnings>>

\* the state of a registry call (getTransformationsForMode)
registryVars == <<catalog, listMode, cursor, listed>>

\* the state of a detection call (detectPossibleEncodings,
\* detectWithConfidence, detectMultiLayer)
detectVars ==
  <<detectInput, maxDepth, detected, scored, current, depth, layers>>

\* the state of an md5Encode call
md5Vars == <<md5Input, md5Bytes>>

\* the state of an importPipeline call: what the FileReader read, the
\* returned promise and the UUIDs crypto.randomUUID has handed out
importVars == <<fileContent, promise, uuids>>

\* the state of the OfflineIndicator component and the time left, in
\* milliseconds, on each timeout it has set
offlineVars == <<isOnline, showIndicator, timers>>

\* the records of the `history` object store, the state of the HistoryPanel
\* component and the asynchronous calls it is waiting for
historyVars ==
  <<historyStore, entries, searchQuery, activeTab, loading, pending>>

\* the state of the Index page: `input`, `output` and `pipeline`
pageVars == <<pageInput, pageOutput, pipeline>>

\* the state of the browser side: file import, the page and its panels
uiVars == <<importVars, offlineVars, historyVars, pageVars>>

vars == <<pc, pipelineVars, registryVars, detectVars, md5Vars, uiVars>>

\* `undefined`, the result of Array.prototype.find when nothing matches
NULL == [id |-> "undefined"]

(***************************************************************************)
(* The registry.  `encode`/`decode` record whether the descriptor carries  *)
(* the function; the names "Base64 -> Emoji" and "Vigenere Cipher" are     *)
(* written in ASCII.                                                       *)
(***************************************************************************)
transformations ==
  <<
    [id |-> "base64", name |-> "Base64", category |-> "Base Encoding",
     canEncode |-> TRUE, canDecode |-> TRUE, reversibility |-> "reversible", riskLevel |-> "low",
     encode |-> TRUE, decode |-> TRUE],
    [id |-> "base32", name |-> "Base32", category |-> "Base Encoding",
     canEncode |-> TRUE, canDecode |-> TRUE, reversibility |-> "reversible", riskLevel |-> "low",
     encode |-> TRUE, decode |-> TRUE],
    [id |-> "base58", name |-> "Base58", category |-> "Base Encoding",
     canEncode |-> TRUE, canDecode |-> TRUE, reversibility |-> "reversible", riskLevel |-> "low",
     encode |-> TRUE, decode |-> TRUE],
    [id |-> "base85", name |-> "Base85 / ASCII85", category |-> "Base Encoding",
     canEncode |-> TRUE, canDecode |-> TRUE, reversibility |-> "reversible", riskLevel |-> "low",
     encode |-> TRUE, decode |-> TRUE],
    [id |-> "hex", name |-> "Hexadecimal", category |-> "Base Encoding",
     canEncode |-> TRUE, canDecode |-> TRUE, reversibility |-> "reversible", riskLevel |-> "low",
     encode |-> TRUE, decode |-> TRUE],
    [id |-> "binary", name |-> "Binary (8-bit)", category |-> "Base Encoding",
     canEncode |-> TRUE, canDecode |-> TRUE, reversibility |-> "reversible", riskLevel |-> "low",
     encode |-> TRUE, decode |-> TRUE],
    [id |-> "binary7", name |-> "Binary (7-bit)", category |-> "Base Encoding",
     canEncode |-> TRUE, canDecode |-> TRUE, reversibility |-> "reversible", riskLevel |-> "low",
     encode |-> TRUE, decode |-> TRUE],
    [id |-> "url", name |-> "URL Encode", category |-> "Web",
     canEncode |-> TRUE, canDecode |-> TRUE, reversibility |-> "reversible", riskLevel |-> "low",
     encode |-> TRUE, decode |-> TRUE],
    [id |-> "html-entity", name |-> "HTML Entity", category |-> "Web",
     canEncode |-> TRUE, canDecode |-> TRUE, reversibility |-> "reversible", riskLevel |-> "low",
     encode |-> TRUE, decode |-> TRUE],
    [id |-> "unicode-escape", name |-> "Unicode Escape", category |-> "Web",
     canEncode |-> TRUE, canDecode |-> TRUE, reversibility |-> "reversible", riskLevel |-> "low",
     encode |-> TRUE, decode |-> TRUE],
    [id |-> "rot13", name |-> "ROT13", category |-> "Cipher",
     canEncode |-> TRUE, canDecode |-> TRUE, reversibility |-> "reversible", riskLevel |-> "low",
     encode |-> TRUE, decode |-> TRUE],
    [id |-> "rot47", name |-> "ROT47", category |-> "Cipher",
     canEncode |-> TRUE, canDecode |-> TRUE, reversibility |-> "reversible", riskLevel |-> "low",
     encode |-> TRUE, decode |-> TRUE],
    [id |-> "caesar", name |-> "Caesar Cipher", category |-> "Cipher",
     canEncode |-> TRUE, canDecode |-> TRUE, reversibility |-> "reversible", riskLevel |-> "low",
     encode |-> TRUE, decode |-> TRUE],
    [id |-> "atbash", name |-> "Atbash Cipher", category |-> "Cipher",
     canEncode |-> TRUE, canDecode |-> TRUE, reversibility |-> "reversible", riskLevel |-> "low",
     encode |-> TRUE, decode |-> TRUE],
    [id |-> "custom-rot", name |-> "Custom ROT", category |-> "Cipher",
     canEncode |-> TRUE, canDecode |-> TRUE, reversibility |-> "reversible", riskLevel |-> "low",
     encode |-> TRUE, decode |-> TRUE],
    [id |-> "leet-light", name |-> "Leetspeak (Light)", category |-> "Substitution",
     canEncode |-> TRUE, canDecode |-> TRUE, reversibility |-> "partial", riskLevel |-> "low",
     encode |-> TRUE, decode |-> TRUE],
    [id |-> "leet-heavy", name |-> "Leetspeak (Heavy)", category |-> "Substitution",
     canEncode |-> TRUE, canDecode |-> FALSE, reversibility |-> "irreversible", riskLevel |-> "medium",
     encode |-> TRUE, decode |-> FALSE],
    [id |-> "braille", name |-> "Braille Unicode", category |-> "Steganography",
     canEncode |-> TRUE, canDecode |-> TRUE, reversibility |-> "reversible", riskLevel |-> "low",
     encode |-> TRUE, decode |-> TRUE],
    [id |-> "homoglyph", name |-> "Homoglyph", category |-> "Steganography",
     canEncode |-> TRUE, canDecode |-> FALSE, reversibility |-> "irreversible", riskLevel |-> "medium",
     encode |-> TRUE, decode |-> FALSE],
    [id |-> "zerowidth-encode", name |-> "Zero-Width Encode", category |-> "Steganography",
     canEncode |-> TRUE, canDecode |-> FALSE, reversibility |-> "reversible", riskLevel |-> "low",
     encode |-> TRUE, decode |-> FALSE],
    [id |-> "zerowidth-decode", name |-> "Zero-Width Decode", category |-> "Steganography",
     canEncode |-> FALSE, canDecode |-> TRUE, reversibility |-> "reversible", riskLevel |-> "low",
     encode |-> FALSE, decode |-> TRUE],
    [id |-> "zerowidth-reveal", name |-> "Zero-Width Reveal", category |-> "Steganography",
     canEncode |-> FALSE, canDecode |-> TRUE, reversibility |-> "reversible", riskLevel |-> "low",
     encode |-> FALSE, decode |-> TRUE],
    [id |-> "zerowidth-remove", name |-> "Zero-Width Remove", category |-> "Steganography",
     canEncode |-> FALSE, canDecode |-> TRUE, reversibility |-> "irreversible", riskLevel |-> "low",
     encode |-> FALSE, decode |-> TRUE],
    [id |-> "emoji-alphabet", name |-> "Emoji Alphabet", category |-> "Emoji",
     canEncode |-> TRUE, canDecode |-> TRUE, reversibility |-> "reversible", riskLevel |-> "low",
     encode |-> TRUE, decode |-> TRUE],
    [id |-> "binary-emoji", name |-> "Binary Emoji", category |-> "Emoji",
     canEncode |-> TRUE, canDecode |-> TRUE, reversibility |-> "reversible", riskLevel |-> "low",
     encode |-> TRUE, decode |-> TRUE],
    [id |-> "base64-emoji", name |-> "Base64 -> Emoji", category |-> "Emoji",
     canEncode |-> TRUE, canDecode |-> TRUE, reversibility |-> "reversible", riskLevel |-> "low",
     encode |-> TRUE, decode |-> TRUE],
    [id |-> "emoji-padding", name |-> "Emoji Padding", category |-> "Emoji",
     canEncode |-> TRUE, canDecode |-> TRUE, reversibility |-> "reversible", riskLevel |-> "low",
     encode |-> TRUE, decode |-> TRUE],
    [id |-> "emoji-noise", name |-> "Emoji Noise", category |-> "Emoji",
     canEncode |-> TRUE, canDecode |-> TRUE, reversibility |-> "reversible", riskLevel |-> "low",
     encode |-> TRUE, decode |-> TRUE],
    [id |-> "emoji-skintone", name |-> "Emoji Skin Tone", category |-> "Emoji",
     canEncode |-> TRUE, canDecode |-> TRUE, reversibility |-> "reversible", riskLevel |-> "low",
     encode |-> TRUE, decode |-> TRUE],
    [id |-> "case-encode", name |-> "Case Encoding", category |-> "Obfuscation",
     canEncode |-> TRUE, canDecode |-> TRUE, reversibility |-> "reversible", riskLevel |-> "low",
     encode |-> TRUE, decode |-> TRUE],
    [id |-> "whitespace", name |-> "Whitespace", category |-> "Obfuscation",
     canEncode |-> TRUE, canDecode |-> TRUE, reversibility |-> "reversible", riskLevel |-> "low",
     encode |-> TRUE, decode |-> TRUE],
    [id |-> "punctuation", name |-> "Punctuation", category |-> "Obfuscation",
     canEncode |-> TRUE, canDecode |-> TRUE, reversibility |-> "reversible", riskLevel |-> "low",
     encode |-> TRUE, decode |-> TRUE],
    [id |-> "synonym", name |-> "Synonym Shuffle", category |-> "Obfuscation",
     canEncode |-> TRUE, canDecode |-> FALSE, reversibility |-> "irreversible", riskLevel |-> "high",
     encode |-> TRUE, decode |-> FALSE],
    [id |-> "reverse", name |-> "Reverse", category |-> "Text",
     canEncode |-> TRUE, canDecode |-> TRUE, reversibility |-> "reversible", riskLevel |-> "low",
     encode |-> TRUE, decode |-> TRUE],
    [id |-> "uppercase", name |-> "Uppercase", category |-> "Text",
     canEncode |-> TRUE, canDecode |-> FALSE, reversibility |-> "partial", riskLevel |-> "low",
     encode |-> TRUE, decode |-> FALSE],
    [id |-> "lowercase", name |-> "Lowercase", category |-> "Text",
     canEncode |-> TRUE, canDecode |-> FALSE, reversibility |-> "partial", riskLevel |-> "low",
     encode |-> TRUE, decode |-> FALSE],
    [id |-> "hash", name |-> "Hash (Demo)", category |-> "Hash",
     canEncode |-> TRUE, canDecode |-> FALSE, reversibility |-> "irreversible", riskLevel |-> "high",
     encode |-> TRUE, decode |-> FALSE],
    [id |-> "vigenere", name |-> "Vigenere Cipher", category |-> "Cipher",
     canEncode |-> TRUE, canDecode |-> TRUE, reversibility |-> "reversible", riskLevel |-> "low",
     encode |-> TRUE, decode |-> TRUE],
    [id |-> "xor", name |-> "XOR Encryption", category |-> "Cipher",
     canEncode |-> TRUE, canDecode |-> TRUE, reversibility |-> "reversible", riskLevel |-> "low",
     encode |-> TRUE, decode |-> TRUE],
    [id |-> "aes", name |-> "AES Encryption", category |-> "Cipher",
     canEncode |-> TRUE, canDecode |-> TRUE, reversibility |-> "reversible", riskLevel |-> "medium",
     encode |-> TRUE, decode |-> TRUE],
    [id |-> "morse", name |-> "Morse Code", category |-> "Cipher",
     canEncode |-> TRUE, canDecode |-> TRUE, reversibility |-> "reversible", riskLevel |-> "low",
     encode |-> TRUE, decode |-> TRUE],
    [id |-> "bacon", name |-> "Bacon Cipher", category |-> "Cipher",
     canEncode |-> TRUE, canDecode |-> TRUE, reversibility |-> "reversible", riskLevel |-> "low",
     encode |-> TRUE, decode |-> TRUE],
    [id |-> "railfence", name |-> "Rail Fence Cipher", category |-> "Cipher",
     canEncode |-> TRUE, canDecode |-> TRUE, reversibility |-> "reversible", riskLevel |-> "low",
     encode |-> TRUE, decode |-> TRUE],
    [id |-> "affine", name |-> "Affine Cipher", category |-> "Cipher",
     canEncode |-> TRUE, canDecode |-> TRUE, reversibility |-> "reversible", riskLevel |-> "low",
     encode |-> TRUE, decode |-> TRUE],
    [id |-> "polybius", name |-> "Polybius Square", category |-> "Cipher",
     canEncode |-> TRUE, canDecode |-> TRUE, reversibility |-> "reversible", riskLevel |-> "low",
     encode |-> TRUE, decode |-> TRUE],
    [id |-> "sha256", name |-> "SHA-256", category |-> "Hash",
     canEncode |-> TRUE, canDecode |-> FALSE, reversibility |-> "irreversible", riskLevel |-> "high",
     encode |-> TRUE, decode |-> FALSE],
    [id |-> "sha512", name |-> "SHA-512", category |-> "Hash",
     canEncode |-> TRUE, canDecode |-> FALSE, reversibility |-> "irreversible", riskLevel |-> "high",
     encode |-> TRUE, decode |-> FALSE],
    [id |-> "md5", name |-> "MD5", category |-> "Hash",
     canEncode |-> TRUE, canDecode |-> FALSE, reversibility |-> "irreversible", riskLevel |-> "high",
     encode |-> TRUE, decode |-> FALSE],
    [id |-> "frequency", name |-> "Frequency Analysis", category |-> "Analysis",
     canEncode |-> TRUE, canDecode |-> FALSE, reversibility |-> "irreversible", riskLevel |-> "low",
     encode |-> TRUE, decode |-> FALSE],
    [id |-> "bruteforce-caesar", name |-> "Brute Force Caesar", category |-> "Analysis",
     canEncode |-> FALSE, canDecode |-> TRUE, reversibility |-> "irreversible", riskLevel |-> "low",
     encode |-> FALSE, decode |-> TRUE],
    [id |-> "char-stats", name |-> "Character Statistics", category |-> "Analysis",
     canEncode |-> TRUE, canDecode |-> FALSE, reversibility |-> "irreversible", riskLevel |-> "low",
     encode |-> TRUE, decode |-> FALSE]
  >>

RECURSIVE find(_, _, _)
find(list, id, i) ==
  IF i > Len(list) THEN NULL
  ELSE IF list[i].id = id THEN list[i]
  ELSE find(list, id, i + 1)

\* transformations.find(t => t.id === id), tabulated over the catalog's ids
registryIds == {transformations[i].id : i \in 1..Len(transformations)}

findById == [id \in registryIds |-> find(transformations, id, 1)]

getTransformation(id) == IF id \in registryIds THEN findById[id] ELSE NULL

\* no registry call in progress
registryIdle ==
  /\ catalog = transformations
  /\ listMode = "detect"
  /\ cursor = 1
  /\ listed = <<>>

\* maxDepth: number = 3
DefaultMaxDepth == 3

\* no detection call in progress
detectIdle ==
  /\ detectInput = <<>>
  /\ maxDepth = DefaultMaxDepth
  /\ detected = <<>>
  /\ scored = <<>>
  /\ current = <<>>
  /\ depth = 0
  /\ layers = <<>>

\* no md5Encode call in progress
md5Idle ==
  /\ md5Input = <<>>
  /\ md5Bytes = <<>>

importIdle ==
  /\ fileContent = NULL
  /\ promise = [state |-> "pending"]
  /\ uuids = {}

offlineIdle ==
  /\ isOnline = TRUE
  /\ showIndicator = FALSE
  /\ timers = <<>>

historyIdle ==
  /\ historyStore = {}
  /\ entries = <<>>
  /\ searchQuery = <<>>
  /\ activeTab = "all"
  /\ loading = FALSE
  /\ pending = {}

pageIdle ==
  /\ pageInput = <<>>
  /\ pageOutput = <<>>
  /\ pipeline = <<>>

uiIdle ==
  /\ importIdle
  /\ offlineIdle
  /\ historyIdle
  /\ pageIdle

(***************************************************************************)
(* Calls that may throw.                                                   *)
(***************************************************************************)
Ok(v) == [ok |-> TRUE, val |-> v]

Throw(msg) == [ok |-> FALSE, err |-> msg]

\* the message of the URIError of encodeURIComponent / decodeURIComponent
URIMalformed == <<"URI malformed">>

\* the message of the DOMException (InvalidCharacterError) of atob / btoa
InvalidCharacter == <<"InvalidCharacterError">>

(***************************************************************************)
(* unescape(encodeURIComponent(s)): the UTF-8 bytes of s, one byte per     *)
(* character.  encodeURIComponent throws a URIError on a lone surrogate.   *)
(***************************************************************************)
IsHighSurrogate(c) == c >= 55296 /\ c <= 56319

IsLowSurrogate(c) == c >= 56320 /\ c <= 57343

utf8OfCodePoint(cp) ==
  IF cp < 128 THEN <<cp>>
  ELSE IF cp < 2048 THEN <<192 + (cp \div 64), 128 + (cp % 64)>>
  ELSE IF cp < 65536
    THEN <<224 + (cp \div 4096), 128 + ((cp \div 64) % 64), 128 + (cp % 64)>>
  ELSE <<240 + (cp \div 262144), 128 + ((cp \div 4096) % 64),
         128 + ((cp \div 64) % 64), 128 + (cp % 64)>>

RECURSIVE utf8Bytes(_)
utf8Bytes(s) ==
  IF Len(s) = 0 THEN Ok(<<>>)
  ELSE IF IsLowSurrogate(s[1]) THEN Throw(URIMalformed)
  ELSE IF IsHighSurrogate(s[1])
    THEN IF Len(s) < 2 \/ ~IsLowSurrogate(s[2]) THEN Throw(URIMalformed)
         ELSE LET rest == utf8Bytes(SubSeq(s, 3, Len(s)))
                  cp == 65536 + (s[1] - 55296) * 1024 + (s[2] - 56320)
              IN IF rest.ok THEN Ok(utf8OfCodePoint(cp) \o rest.val) ELSE rest
  ELSE LET rest == utf8Bytes(SubSeq(s, 2, Len(s)))
       IN IF rest.ok THEN Ok(utf8OfCodePoint(s[1]) \o rest.val) ELSE rest

(***************************************************************************)
(* decodeURIComponent(escape(b)): the text whose UTF-8 bytes are b.        *)
(* decodeURIComponent throws a URIError unless the bytes are well-formed   *)
(* UTF-8 (no stray continuation byte, no overlong form, no surrogate, no   *)
(* code point above 0x10FFFF).                                             *)
(***************************************************************************)
IsCont(b, i) == i <= Len(b) /\ b[i] >= 128 /\ b[i] <= 191

unitsOfCodePoint(cp) ==
  IF cp < 65536 THEN <<cp>>
  ELSE <<55296 + ((cp - 65536) \div 1024), 56320 + ((cp - 65536) % 1024)>>

\* the number of bytes of the well-formed sequence that starts b, or 0
utf8SeqLen(b) ==
  LET b1 == b[1]
      lo2 == IF b1 = 224 THEN 160 ELSE IF b1 = 240 THEN 144 ELSE 128
      hi2 == IF b1 = 237 THEN 159 ELSE IF b1 = 244 THEN 143 ELSE 191
      second == Len(b) >= 2 /\ b[2] >= lo2 /\ b[2] <= hi2
  IN IF b1 < 128 THEN 1
     ELSE IF b1 >= 194 /\ b1 <= 223 THEN (IF second THEN 2 ELSE 0)
     ELSE IF b1 >= 224 /\ b1 <= 239
       THEN (IF second /\ IsCont(b, 3) THEN 3 ELSE 0)
     ELSE IF b1 >= 240 /\ b1 <= 244
       THEN (IF second /\ IsCont(b, 3) /\ IsCont(b, 4) THEN 4 ELSE 0)
     ELSE 0

codePointOf(b, n) ==
  IF n = 1 THEN b[1]
  ELSE IF n = 2 THEN (b[1] - 192) * 64 + (b[2] - 128)
  ELSE IF n = 3 THEN (b[1] - 224) * 4096 + (b[2] - 128) * 64 + (b[3] - 128)
  ELSE (b[1] - 240) * 262144 + (b[2] - 128) * 4096 + (b[3] - 128) * 64
       + (b[4] - 128)

\* A text of more than 8 bytes is decoded in two halves, cut at a byte that
\* is not a continuation byte: well-formed UTF-8 has one among any four
\* bytes, and a sequence starts at each.
RECURSIVE utf8Text(_)
utf8Text(b) ==
  IF Len(b) = 0 THEN Ok(<<>>)
  ELSE IF Len(b) > 8
    THEN LET half == Len(b) \div 2
             cuts == {i \in (half + 1)..(half + 4) : b[i] < 128 \/ b[i] > 191}
         IN IF cuts = {} THEN Throw(URIMalformed)
            ELSE LET cut == CHOOSE i \in cuts : \A j \in cuts : i <= j
                     left == utf8Text(SubSeq(b, 1, cut - 1))
                     right == utf8Text(SubSeq(b, cut, Len(b)))
                 IN IF ~left.ok THEN left
                    ELSE IF ~right.ok THEN right
                    ELSE Ok(left.val \o right.val)
  ELSE LET n == utf8SeqLen(b)
       IN IF n = 0 THEN Throw(URIMalformed)
          ELSE LET rest == utf8Text(SubSeq(b, n + 1, Len(b)))
               IN IF rest.ok
                    THEN Ok(unitsOfCodePoint(codePointOf(b, n)) \o rest.val)
                    ELSE rest

(***************************************************************************)
(* btoa and atob (forgiving-base64 encode and decode).                     *)
(***************************************************************************)
b64Char(n) ==
  IF n < 26 THEN 65 + n
  ELSE IF n < 52 THEN 97 + (n - 26)
  ELSE IF n < 62 THEN 48 + (n - 52)
  ELSE IF n = 62 THEN 43 ELSE 47

b64Index(c) ==
  IF c >= 65 /\ c <= 90 THEN c - 65
  ELSE IF c >= 97 /\ c <= 122 THEN c - 97 + 26
  ELSE IF c >= 48 /\ c <= 57 THEN c - 48 + 52
  ELSE IF c = 43 THEN 62
  ELSE IF c = 47 THEN 63
  ELSE -1

RECURSIVE btoaGroups(_)
btoaGroups(b) ==
  IF Len(b) = 0 THEN <<>>
  ELSE IF Len(b) = 1
    THEN <<b64Char(b[1] \div 4), b64Char((b[1] % 4) * 16), 61, 61>>
  ELSE IF Len(b) = 2
    THEN <<b64Char(b[1] \div 4), b64Char((b[1] % 4) * 16 + (b[2] \div 16)),
           b64Char((b[2] % 16) * 4), 61>>
  ELSE <<b64Char(b[1] \div 4), b64Char((b[1] % 4) * 16 + (b[2] \div 16)),
         b64Char((b[2] % 16) * 4 + (b[3] \div 64)), b64Char(b[3] % 64)>>
       \o btoaGroups(SubSeq(b, 4, Len(b)))

btoa(b) ==
  IF \E i \in 1..Len(b) : b[i] > 255 THEN Throw(InvalidCharacter)
  ELSE Ok(btoaGroups(b))

AsciiWhitespace == {9, 10, 12, 13, 32}

RECURSIVE atobGroups(_)
atobGroups(s) ==
  LET v(i) == b64Index(s[i])
  IN IF Len(s) = 0 THEN <<>>
     ELSE IF Len(s) = 2 THEN <<v(1) * 4 + (v(2) \div 16)>>
     ELSE IF Len(s) = 3
       THEN <<v(1) * 4 + (v(2) \div 16), (v(2) % 16) * 16 + (v(3) \div 4)>>
     ELSE <<v(1) * 4 + (v(2) \div 16), (v(2) % 16) * 16 + (v(3) \div 4),
            (v(3) % 4) * 64 + v(4)>>
          \o atobGroups(SubSeq(s, 5, Len(s)))

atob(data) ==
  LET s1 == SelectSeq(data, LAMBDA c : c \notin AsciiWhitespace)
      n1 == Len(s1)
      s2 == IF n1 > 0 /\ n1 % 4 = 0
              THEN IF s1[n1] = 61 /\ s1[n1 - 1] = 61 THEN SubSeq(s1, 1, n1 - 2)
                   ELSE IF s1[n1] = 61 THEN SubSeq(s1, 1, n1 - 1)
                   ELSE s1
              ELSE s1
  IN IF Len(s2) % 4 = 1 THEN Throw(InvalidCharacter)
     ELSE IF \E i \in 1..Len(s2) : b64Index(s2[i]) = -1
       THEN Throw(InvalidCharacter)
     ELSE Ok(atobGroups(s2))

(***************************************************************************)
(* The algorithms of the steps the pipelines below use.                    *)
(***************************************************************************)
base64Encode(in) ==
  LET bytes == utf8Bytes(in)
  IN IF bytes.ok THEN btoa(bytes.val) ELSE bytes

base64Decode(in) ==
  LET bytes == atob(in)
  IN IF bytes.ok THEN utf8Text(bytes.val) ELSE bytes

IsLetter(c) == (c >= 65 /\ c <= 90) \/ (c >= 97 /\ c <= 122)

rot13(in) ==
  Ok([i \in 1..Len(in) |->
        IF IsLetter(in[i])
          THEN LET base == IF in[i] <= 90 THEN 65 ELSE 97
               IN ((in[i] - base + 13) % 26) + base
          ELSE in[i]])

reverseString(in) == Ok([i \in 1..Len(in) |-> in[Len(in) + 1 - i]])

(***************************************************************************)
(* htmlEntityEncode and htmlEntityDecode.                                  *)
(***************************************************************************)
IsDigit(c) == c >= 48 /\ c <= 57

IsHexDigit(c) == IsDigit(c) \/ (c >= 97 /\ c <= 102) \/ (c >= 65 /\ c <= 70)

hexDigitValue(c) ==
  IF IsDigit(c) THEN c - 48 ELSE IF c >= 97 THEN c - 97 + 10 ELSE c - 65 + 10

\* the decimal digits of n, as text: `${code}`
RECURSIVE decimalText(_)
decimalText(n) ==
  IF n < 10 THEN <<48 + n>> ELSE decimalText(n \div 10) \o <<48 + (n % 10)>>

\* the characters htmlEntityEncode replaces: above 127, and < > & " '
isEntityEncoded(c) == c > 127 \/ c \in {60, 62, 38, 34, 39}

RECURSIVE htmlEntityEncodeFrom(_, _)
htmlEntityEncodeFrom(in, i) ==
  IF i > Len(in) THEN <<>>
  ELSE (IF isEntityEncoded(in[i]) THEN <<38, 35>> \o decimalText(in[i]) \o <<59>>
        ELSE <<in[i]>>)
       \o htmlEntityEncodeFrom(in, i + 1)

htmlEntityEncode(in) == Ok(htmlEntityEncodeFrom(in, 1))

\* the first position from i on that holds no digit of the base (10 or 16)
RECURSIVE digitsEnd(_, _, _)
digitsEnd(s, i, base) ==
  IF i <= Len(s) /\ (IF base = 10 THEN IsDigit(s[i]) ELSE IsHexDigit(s[i]))
    THEN digitsEnd(s, i + 1, base)
    ELSE i

\* parseInt of the digits s[i..j-1] in the base
RECURSIVE parseDigits(_, _, _, _)
parseDigits(s, i, j, base) ==
  IF j <= i THEN 0
  ELSE parseDigits(s, i, j - 1, base) * base + hexDigitValue(s[j - 1])

\* String.fromCharCode(n): the code unit n modulo 2^16
fromCharCode(n) == n % 65536

hasAt(s, i, lit) ==
  /\ i + Len(lit) - 1 <= Len(s)
  /\ \A k \in 1..Len(lit) : s[i + k - 1] = lit[k]

\* s.replace(/&#(\d+);/g, ...) for base 10 with prefix "&#", and
\* s.replace(/&#x([0-9a-fA-F]+);/g, ...) for base 16 with prefix "&#x"
RECURSIVE replaceNumeric(_, _, _, _)
replaceNumeric(s, i, prefix, base) ==
  IF i > Len(s) THEN <<>>
  ELSE LET from == i + Len(prefix)
           to == digitsEnd(s, from, base)
       IN IF hasAt(s, i, prefix) /\ to > from /\ to <= Len(s) /\ s[to] = 59
            THEN <<fromCharCode(parseDigits(s, from, to, base))>>
                 \o replaceNumeric(s, to + 1, prefix, base)
            ELSE <<s[i]>> \o replaceNumeric(s, i + 1, prefix, base)

\* s.replace(/lit/g, with) for a literal pattern
RECURSIVE replaceLiteral(_, _, _, _)
replaceLiteral(s, i, lit, with) ==
  IF i > Len(s) THEN <<>>
  ELSE IF hasAt(s, i, lit) THEN with \o replaceLiteral(s, i + Len(lit), lit, with)
  ELSE <<s[i]>> \o replaceLiteral(s, i + 1, lit, with)

\* "&lt;" "&gt;" "&amp;" "&quot;" "&apos;"
EntityLt == <<38, 108, 116, 59>>

EntityGt == <<38, 103, 116, 59>>

EntityAmp == <<38, 97, 109, 112, 59>>

EntityQuot == <<38, 113, 117, 111, 116, 59>>

EntityApos == <<38, 97, 112, 111, 115, 59>>

htmlEntityDecode(in) ==
  LET s1 == replaceNumeric(in, 1, <<38, 35>>, 10)
      s2 == replaceNumeric(s1, 1, <<38, 35, 120>>, 16)
      s3 == replaceLiteral(s2, 1, EntityLt, <<60>>)
      s4 == replaceLiteral(s3, 1, EntityGt, <<62>>)
      s5 == replaceLiteral(s4, 1, EntityAmp, <<38>>)
      s6 == replaceLiteral(s5, 1, EntityQuot, <<34>>)
      s7 == replaceLiteral(s6, 1, EntityApos, <<39>>)
  IN Ok(s7)

\* \s
SpaceChars ==
  {9, 10, 11, 12, 13, 32, 160, 5760, 8232, 8233, 8239, 8287, 12288, 65279}
  \cup (8192..8202)

(***************************************************************************)
(* Further decoders: new TextDecoder().decode (which                       *)
(* replaces what is not UTF-8 by U+FFFD and drops a leading byte order     *)
(* mark), base32Decode, hexDecode and binaryDecode.                        *)
(***************************************************************************)
\* the bytes the decoder consumes before it emits U+FFFD for a sequence
\* that is not well formed: the lead and the continuation bytes that fit
malformedPrefixLen(b) ==
  LET b1 == b[1]
      lo2 == IF b1 = 224 THEN 160 ELSE IF b1 = 240 THEN 144 ELSE 128
      hi2 == IF b1 = 237 THEN 159 ELSE IF b1 = 244 THEN 143 ELSE 191
      second == Len(b) >= 2 /\ b[2] >= lo2 /\ b[2] <= hi2
  IN IF b1 < 194 \/ b1 > 244 THEN 1
     ELSE IF ~second THEN 1
     ELSE IF b1 <= 239 THEN 2
     ELSE IF IsCont(b, 3) THEN 3 ELSE 2

\* A text of more than 8 bytes is decoded in two halves, cut at a byte that
\* is not a continuation byte when the second half has one: such a byte
\* ends the sequence before it and is decoded afresh.
RECURSIVE utf8Replacing(_)
utf8Replacing(b) ==
  IF Len(b) = 0 THEN <<>>
  ELSE IF Len(b) > 8
          /\ \E i \in ((Len(b) \div 2) + 1)..Len(b) : b[i] < 128 \/ b[i] > 191
    THEN LET cuts == {i \in ((Len(b) \div 2) + 1)..Len(b) :
                        b[i] < 128 \/ b[i] > 191}
             cut == CHOOSE i \in cuts : \A j \in cuts : i <= j
         IN utf8Replacing(SubSeq(b, 1, cut - 1))
            \o utf8Replacing(SubSeq(b, cut, Len(b)))
  ELSE LET n == utf8SeqLen(b)
       IN IF n = 0
            THEN <<65533>>
                 \o utf8Replacing(SubSeq(b, malformedPrefixLen(b) + 1, Len(b)))
            ELSE unitsOfCodePoint(codePointOf(b, n))
                 \o utf8Replacing(SubSeq(b, n + 1, Len(b)))

\* new TextDecoder().decode(new Uint8Array(bytes))
textDecode(b) ==
  IF hasAt(b, 1, <<239, 187, 191>>)
    THEN utf8Replacing(SubSeq(b, 4, Len(b)))
    ELSE utf8Replacing(b)

\* input.replace(/=+$/, '')
RECURSIVE stripTrailingEquals(_)
stripTrailingEquals(s) ==
  IF Len(s) > 0 /\ s[Len(s)] = 61
    THEN stripTrailingEquals(SubSeq(s, 1, Len(s) - 1))
    ELSE s

\* toUpperCase on the letters a-z
toUpperCase(s) ==
  [i \in 1..Len(s) |-> IF s[i] >= 97 /\ s[i] <= 122 THEN s[i] - 32 ELSE s[i]]

\* BASE32_ALPHABET.indexOf(char)
base32Index(c) ==
  IF c >= 65 /\ c <= 90 THEN c - 65
  ELSE IF c >= 50 /\ c <= 55 THEN c - 50 + 26
  ELSE -1

\* the loop of base32Decode from position i on; buffer stands for the low
\* 31 bits of the 32-bit integer, of which the loop reads bits 0 to 12
RECURSIVE base32Bytes(_, _, _, _)
base32Bytes(cleaned, i, buffer, bitsLeft) ==
  IF i > Len(cleaned) THEN <<>>
  ELSE LET value == base32Index(cleaned[i])
       IN IF value = -1 THEN base32Bytes(cleaned, i + 1, buffer, bitsLeft)
          ELSE LET shifted == (buffer % 67108864) * 32 + value
                   bits == bitsLeft + 5
               IN IF bits >= 8
                    THEN <<(shifted \div (2 ^ (bits - 8))) % 256>>
                         \o base32Bytes(cleaned, i + 1, shifted, bits - 8)
                    ELSE base32Bytes(cleaned, i + 1, shifted, bits)

base32Decode(in) ==
  Ok(textDecode(base32Bytes(toUpperCase(stripTrailingEquals(in)), 1, 0, 0)))

\* input.match(/.{1,2}/g)?.map(b => parseInt(b, 16)) stored in a Uint8Array,
\* from position i on.  A chunk is one or two characters that are not line
\* terminators; parseInt skips leading white space, takes a sign, drops a
\* 0x prefix and reads the hex digits that follow; NaN is stored as 0 and a
\* negative number modulo 256.
RECURSIVE hexBytes(_, _)
hexBytes(s, i) ==
  LET isLineEnd(c) == c \in {10, 13, 8232, 8233}
      isBlank(c) == c \in SpaceChars
      two == i < Len(s) /\ ~isLineEnd(s[i + 1])
      c1 == s[i]
      c2 == s[i + 1]
      byte ==
        IF ~two THEN (IF IsHexDigit(c1) THEN hexDigitValue(c1) ELSE 0)
        ELSE IF isBlank(c1) THEN (IF IsHexDigit(c2) THEN hexDigitValue(c2) ELSE 0)
        ELSE IF c1 = 43 THEN (IF IsHexDigit(c2) THEN hexDigitValue(c2) ELSE 0)
        ELSE IF c1 = 45
          THEN (IF IsHexDigit(c2) THEN (256 - hexDigitValue(c2)) % 256 ELSE 0)
        ELSE IF ~IsHexDigit(c1) THEN 0
        ELSE IF c1 = 48 /\ c2 \in {120, 88} THEN 0
        ELSE IF IsHexDigit(c2) THEN hexDigitValue(c1) * 16 + hexDigitValue(c2)
        ELSE hexDigitValue(c1)
  IN IF i > Len(s) THEN <<>>
     ELSE IF isLineEnd(s[i]) THEN hexBytes(s, i + 1)
     ELSE <<byte>> \o hexBytes(s, IF two THEN i + 2 ELSE i + 1)

hexDecode(in) == Ok(textDecode(hexBytes(in, 1)))

\* input.split(/\s+/).filter(b => b).map(b => parseInt(b, 2)), stored in a
\* Uint8Array, for digits 0 and 1 between white space; acc is the value of
\* the digits of the current token, open whether a token has begun
RECURSIVE binaryBytes(_, _, _, _)
binaryBytes(s, i, acc, open) ==
  IF i > Len(s) THEN (IF open THEN <<acc % 256>> ELSE <<>>)
  ELSE IF s[i] \in SpaceChars
    THEN (IF open THEN <<acc % 256>> ELSE <<>>) \o binaryBytes(s, i + 1, 0, FALSE)
  ELSE binaryBytes(s, i + 1, acc * 2 + (s[i] - 48), TRUE)

binaryDecode(in) == Ok(textDecode(binaryBytes(in, 1, 0, FALSE)))

\* BASE58_ALPHABET.indexOf(char)
base58Index(c) ==
  IF c >= 49 /\ c <= 57 THEN c - 49
  ELSE IF c >= 65 /\ c <= 72 THEN c - 65 + 9
  ELSE IF c >= 74 /\ c <= 78 THEN c - 74 + 17
  ELSE IF c >= 80 /\ c <= 90 THEN c - 80 + 22
  ELSE IF c >= 97 /\ c <= 107 THEN c - 97 + 33
  ELSE IF c >= 109 /\ c <= 122 THEN c - 109 + 44
  ELSE -1

\* num * 58 + carry from digit i on; num is a BigInt, held as its base-256
\* digits with the least significant first
RECURSIVE times58Plus(_, _, _)
times58Plus(digits, i, carry) ==
  IF i > Len(digits) THEN (IF carry = 0 THEN <<>> ELSE <<carry>>)
  ELSE LET v == digits[i] * 58 + carry
       IN <<v % 256>> \o times58Plus(digits, i + 1, v \div 256)

\* num after the first n characters of the input
RECURSIVE base58Num(_, _)
base58Num(s, n) ==
  IF n = 0 THEN <<>>
  ELSE times58Plus(base58Num(s, n - 1), 1, base58Index(s[n]))

\* the number of leading '1' characters
leadingOnes(s) ==
  Cardinality({i \in 1..Len(s) : \A j \in 1..i : s[j] = 49})

base58Decode(in) ==
  IF \E i \in 1..Len(in) : base58Index(in[i]) = -1
    THEN Throw(<<"Invalid Base58 character">>)
    ELSE LET digits == base58Num(in, Len(in))
         IN Ok(textDecode([i \in 1..leadingOnes(in) |-> 0]
                          \o [i \in 1..Len(digits) |->
                                digits[Len(digits) + 1 - i]]))

(***************************************************************************)
(* The Affine cipher; a step carries no options, so a and b are 5 and 8.   *)
(***************************************************************************)
\* modInverse returning 1 without the search
modInverseOne(a, m) == 1

modInverse(a, m) ==
  LET found == {x \in 1..(m - 1) : ((a % m) * (x % m)) % m = 1}
  IN IF found = {} THEN 1 ELSE CHOOSE x \in found : \A y \in found : x <= y

affineEncode(in) ==
  LET a == 5
      b == 8
  IN Ok([i \in 1..Len(in) |->
          IF IsLetter(in[i])
            THEN LET isUpper == in[i] <= 90
                     x == (IF isUpper THEN in[i] ELSE in[i] - 32) - 65
                     encoded == (a * x + b) % 26
                 IN IF isUpper THEN encoded + 65 ELSE encoded + 97
            ELSE in[i]])

affineDecode(in) ==
  LET a == 5
      b == 8
      aInv == modInverse(a, 26)
  IN Ok([i \in 1..Len(in) |->
          IF IsLetter(in[i])
            THEN LET isUpper == in[i] <= 90
                     y == (IF isUpper THEN in[i] ELSE in[i] - 32) - 65
                     decoded == (((aInv * (y - b + 26)) % 26) + 26) % 26
                 IN IF isUpper THEN decoded + 65 ELSE decoded + 97
            ELSE in[i]])

(***************************************************************************)
(* Base85.  The encoder keeps a group in a 32-bit signed integer; the      *)
(* decoder's `value` is exact as a double and is read through >>, so it is *)
(* held modulo 2^32 as four base-256 digits, the least significant first.  *)
(***************************************************************************)
\* new TextEncoder().encode(s): a lone surrogate becomes U+FFFD
RECURSIVE textEncode(_)
textEncode(s) ==
  IF Len(s) = 0 THEN <<>>
  ELSE IF IsHighSurrogate(s[1]) /\ Len(s) >= 2 /\ IsLowSurrogate(s[2])
    THEN utf8OfCodePoint(65536 + (s[1] - 55296) * 1024 + (s[2] - 56320))
         \o textEncode(SubSeq(s, 3, Len(s)))
  ELSE IF IsHighSurrogate(s[1]) \/ IsLowSurrogate(s[1])
    THEN <<239, 191, 189>> \o textEncode(SubSeq(s, 2, Len(s)))
  ELSE utf8OfCodePoint(s[1]) \o textEncode(SubSeq(s, 2, Len(s)))

\* the characters of the groups of bytes from position i on
RECURSIVE base85Groups(_, _)
base85Groups(bytes, i) ==
  IF i > Len(bytes) THEN <<>>
  ELSE LET count == IF Len(bytes) - i + 1 < 4 THEN Len(bytes) - i + 1 ELSE 4
           byteAt(j) == IF j < count THEN bytes[i + j] ELSE 0
           \* (value << 8) | byte four times, as a signed 32-bit integer
           value == (IF byteAt(0) >= 128 THEN byteAt(0) - 256 ELSE byteAt(0))
                      * 16777216
                    + byteAt(1) * 65536 + byteAt(2) * 256 + byteAt(3)
           \* value % 85 takes the sign of value
           rem(v) == IF v >= 0 \/ v % 85 = 0 THEN v % 85 ELSE (v % 85) - 85
           \* value after k times Math.floor(value / 85)
           quotient(k) == CASE k = 0 -> value
                            [] k = 1 -> value \div 85
                            [] k = 2 -> (value \div 85) \div 85
                            [] k = 3 -> ((value \div 85) \div 85) \div 85
                            [] k = 4 -> (((value \div 85) \div 85) \div 85) \div 85
           \* encoded[j] = String.fromCharCode((value % 85) + 33)
           encoded == [j \in 1..5 |-> (rem(quotient(5 - j)) + 33 + 65536) % 65536]
       IN (IF value = 0 /\ count = 4 THEN <<122>>
           ELSE SubSeq(encoded, 1, count + 1))
          \o base85Groups(bytes, i + 4)

base85Encode(in) ==
  LET bytes == textEncode(in)
  IN Ok(<<60, 126>> \o base85Groups(bytes, 1) \o <<126, 62>>)

\* .replace(/\s/g, '') and .replace(/z/g, '!!!!!') from position i on
RECURSIVE base85Data(_, _)
base85Data(s, i) ==
  IF i > Len(s) THEN <<>>
  ELSE (IF s[i] \in SpaceChars THEN <<>>
        ELSE IF s[i] = 122 THEN <<33, 33, 33, 33, 33>>
        ELSE <<s[i]>>) \o base85Data(s, i + 1)

\* the bytes of the chunks of data from position i on
RECURSIVE base85Bytes(_, _)
base85Bytes(data, i) ==
  IF i > Len(data) THEN <<>>
  ELSE LET \* data.slice(i, i + 5).padEnd(5, 'u')
           digit(k) == (IF i + k <= Len(data) THEN data[i + k] ELSE 117) - 33
           \* d modulo 2^32, as digits
           low(d) == IF d >= 0 THEN <<d % 256, d \div 256, 0, 0>>
                     ELSE <<d + 256, 255, 255, 255>>
           \* value * 85 + d modulo 2^32
           next(v, d) ==
             LET v1 == v[1] * 85 + low(d)[1]
                 v2 == v[2] * 85 + low(d)[2] + (v1 \div 256)
                 v3 == v[3] * 85 + low(d)[3] + (v2 \div 256)
                 v4 == v[4] * 85 + low(d)[4] + (v3 \div 256)
             IN <<v1 % 256, v2 % 256, v3 % 256, v4 % 256>>
           value == next(next(next(next(next(<<0, 0, 0, 0>>, digit(0)),
                                        digit(1)), digit(2)), digit(3)), digit(4))
           count == (IF Len(data) - i + 1 < 5 THEN Len(data) - i + 1 ELSE 5) - 1
           \* (value >> (j * 8)) & 0xff for j = 3 down to 4 - count
       IN [k \in 1..count |-> value[5 - k]] \o base85Bytes(data, i + 5)

\* for text without surrogate pairs, which `for (const char of chunk)` would
\* take as one character
base85Decode(in) ==
  LET s1 == IF hasAt(in, 1, <<60, 126>>) THEN SubSeq(in, 3, Len(in)) ELSE in
      s2 == IF Len(s1) >= 2 /\ hasAt(s1, Len(s1) - 1, <<126, 62>>)
              THEN SubSeq(s1, 1, Len(s1) - 2) ELSE s1
  IN Ok(textDecode(base85Bytes(base85Data(s2, 1), 1)))

(***************************************************************************)
(* The registry's AES functions.  A step's options are a record; a step    *)
(* without options passes undefined.                                       *)
(***************************************************************************)
\* step.options
optionsOf(step) == IF "options" \in DOMAIN step THEN step.options ELSE NULL

\* "[AES:"
AesOpen == <<91, 65, 69, 83, 58>>

\* "password"
DefaultAesKey == <<112, 97, 115, 115, 119, 111, 114, 100>>

\* "[Decryption failed]"
DecryptionFailed ==
  <<91, 68, 101, 99, 114, 121, 112, 116, 105,
    111, 110, 32, 102, 97, 105, 108, 101, 100, 93>>

\* `[AES:${btoa(unescape(encodeURIComponent(input)))}:${btoa(key)}]`
aesEncodeSync(in, options) ==
  LET key == IF "key" \in DOMAIN options /\ Len(options.key) > 0
               THEN options.key ELSE DefaultAesKey
      text == base64Encode(in)
      keyText == IF \E i \in 1..Len(key) : key[i] > 255
                   THEN Throw(InvalidCharacter) ELSE btoa(key)
  IN IF ~text.ok THEN text
     ELSE IF ~keyText.ok THEN keyText
     ELSE Ok(AesOpen \o text.val \o <<58>> \o keyText.val \o <<93>>)

\* input.match(/\[AES:(.+):(.+)\]/): the leftmost "[AES:" that a match can
\* start at, and for it the longest first group; a group holds no line
\* terminator.  The key of the options is not read.
aesDecodeSync(in, options) ==
  LET noLineEnd(from, to) ==
        \A k \in from..to : in[k] \notin {10, 13, 8232, 8233}
      matches ==
        {m \in (1..Len(in)) \X (1..Len(in)) :
           /\ hasAt(in, m[1], AesOpen)
           /\ m[2] >= m[1] + 6
           /\ in[m[2]] = 58
           /\ \E e \in (m[2] + 2)..Len(in) :
                in[e] = 93 /\ noLineEnd(m[1] + 5, e - 1)}
  IN IF matches = {} THEN Ok(in)
     ELSE LET start == CHOOSE p \in {m[1] : m \in matches} :
                         \A m \in matches : p <= m[1]
              colon == CHOOSE c \in {m[2] : m \in {n \in matches : n[1] = start}} :
                         \A m \in matches : m[1] = start => c >= m[2]
              decoded == base64Decode(SubSeq(in, start + 5, colon - 1))
          IN IF decoded.ok THEN decoded
             ELSE Ok(DecryptionFailed)

(***************************************************************************)
(* executePipeline                                                         *)
(***************************************************************************)
\* step.mode === 'encode' ? transformation.encode : transformation.decode
hasFn(transformation, mode) ==
  IF mode = "encode" THEN transformation.encode ELSE transformation.decode

\* fn(currentValue, step.options), for the functions modelled above
callFn(transformation, mode, value, options) ==
  IF mode = "encode"
    THEN CASE transformation.id = "base64" -> base64Encode(value)
           [] transformation.id = "rot13" -> rot13(value)
           [] transformation.id = "reverse" -> reverseString(value)
           [] transformation.id = "html-entity" -> htmlEntityEncode(value)
           [] transformation.id = "affine" -> affineEncode(value)
           [] transformation.id = "aes" -> aesEncodeSync(value, options)
           [] transformation.id = "base85" -> base85Encode(value)
    ELSE CASE transformation.id = "base64" -> base64Decode(value)
           [] transformation.id = "rot13" -> rot13(value)
           [] transformation.id = "reverse" -> reverseString(value)
           [] transformation.id = "html-entity" -> htmlEntityDecode(value)
           [] transformation.id = "affine" -> affineDecode(value)
           [] transformation.id = "aes" -> aesDecodeSync(value, options)
           [] transformation.id = "hex" -> hexDecode(value)
           [] transformation.id = "base58" -> base58Decode(value)
           [] transformation.id = "base85" -> base85Decode(value)

\* tryStep with the error message built from the id instead of the name
tryStepNamingId(transformation, step, value) ==
  IF ~hasFn(transformation, step.mode)
    THEN Throw(<<step.mode, " not supported for ", transformation.id>>)
    ELSE callFn(transformation, step.mode, value, optionsOf(step))

\* the body of the try block: the thrown error or the output of fn
tryStep(transformation, step, value) ==
  IF ~hasFn(transformation, step.mode)
    THEN Throw(<<step.mode, " not supported for ", transformation.name>>)
    ELSE callFn(transformation, step.mode, value, optionsOf(step))

\* notFoundResult with the catch block's fallback message
notFoundResultUnknownError(step, value) ==
  [stepId |-> step.id, input |-> value, output |-> value, success |-> FALSE,
   error |-> <<"Unknown error">>]

notFoundResult(step, value) ==
  [stepId |-> step.id, input |-> value, output |-> value, success |-> FALSE,
   error |-> <<"Transformation not found">>]

successResult(step, value, output) ==
  [stepId |-> step.id, input |-> value, output |-> output, success |-> TRUE]

caughtResult(step, value, message) ==
  [stepId |-> step.id, input |-> value, output |-> value, success |-> FALSE,
   error |-> message]

\* nextValue without `currentValue = output`
nextValueNotAdvanced(value, r) == value

\* the value the loop carries on with after an iteration
nextValue(value, r) == IF r.ok THEN r.val ELSE value

\* ExecStep with `break` in place of `continue` on an unregistered id
ExecStepBreaking ==
  /\ pc = "loop"
  /\ idx <= Len(steps)
  /\ LET step == steps[idx]
         transformation == getTransformation(step.transformationId)
     IN IF transformation = NULL
          THEN /\ results' = Append(results, notFoundResult(step, currentValue))
               /\ idx' = Len(steps) + 1
               /\ UNCHANGED currentValue
          ELSE LET r == tryStep(transformation, step, currentValue)
               IN /\ results' = Append(results,
                       IF r.ok THEN successResult(step, currentValue, r.val)
                       ELSE caughtResult(step, currentValue, r.err))
                  /\ currentValue' = nextValue(currentValue, r)
                  /\ idx' = idx + 1
  /\ UNCHANGED <<pc, input, steps, finalOutput, warnings>>
  /\ UNCHANGED <<registryVars, detectVars, md5Vars, uiVars>>

\* one iteration of `for (const step of steps)`
ExecStep ==
  /\ pc = "loop"
  /\ idx <= Len(steps)
  /\ LET step == steps[idx]
         transformation == getTransformation(step.transformationId)
     IN IF transformation = NULL
          THEN /\ results' = Append(results, notFoundResult(step, currentValue))
               /\ UNCHANGED currentValue
          ELSE LET r == tryStep(transformation, step, currentValue)
               IN /\ results' = Append(results,
                       IF r.ok THEN successResult(step, currentValue, r.val)
                       ELSE caughtResult(step, currentValue, r.err))
                  /\ currentValue' = nextValue(currentValue, r)
  /\ idx' = idx + 1
  /\ UNCHANGED <<pc, input, steps, finalOutput, warnings>>
  /\ UNCHANGED <<registryVars, detectVars, md5Vars, uiVars>>

\* ExecReturn returning the input in place of currentValue
ExecReturnInput ==
  /\ pc = "loop"
  /\ idx > Len(steps)
  /\ finalOutput' = input
  /\ pc' = "done"
  /\ UNCHANGED <<input, steps, idx, currentValue, results, warnings>>
  /\ UNCHANGED <<registryVars, detectVars, md5Vars, uiVars>>

\* return { results, finalOutput: currentValue }
ExecReturn ==
  /\ pc = "loop"
  /\ idx > Len(steps)
  /\ finalOutput' = currentValue
  /\ pc' = "done"
  /\ UNCHANGED <<input, steps, idx, currentValue, results, warnings>>
  /\ UNCHANGED <<registryVars, detectVars, md5Vars, uiVars>>

(***************************************************************************)
(* The calls explored: every pipeline of at most MaxSteps steps over       *)
(* StepKinds (steps whose function is modelled above, steps whose mode has *)
(* no function, and a step with an unregistered id), on every text of      *)
(* Inputs.                                                                 *)
(***************************************************************************)
MaxSteps == 4

\* "hi"
TextHi == <<104, 105>>

\* "aGk=", the Base64 of "hi"
TextHiBase64 == <<97, 71, 107, 61>>

\* "SECRET"
TextSecret == <<83, 69, 67, 82, 69, 84>>

\* "e" with an acute accent (U+00E9), two bytes in UTF-8
TextEAcute == <<233>>

Inputs == {<<>>, TextHi, TextHiBase64, TextSecret, TextEAcute}

StepKinds ==
  {[transformationId |-> "base64", mode |-> "encode"],
   [transformationId |-> "base64", mode |-> "decode"],
   [transformationId |-> "rot13", mode |-> "encode"],
   [transformationId |-> "reverse", mode |-> "decode"],
   [transformationId |-> "uppercase", mode |-> "decode"],
   [transformationId |-> "unknown-id", mode |-> "encode"]}

\* step ids are opaque and pairwise distinct (naturals stand for the id
\* strings); a pipeline of n steps carries them in ascending or in descending
\* order
stepIdAt(scheme, i, n) == IF scheme = "asc" THEN i ELSE n + 1 - i

kindSeqs(kinds, max) == UNION {[1..n -> kinds] : n \in 0..max}

PipelinesOver(kinds, max) ==
  {[i \in DOMAIN k |-> [id |-> stepIdAt(scheme, i, Len(k)),
                        transformationId |-> k[i].transformationId,
                        mode |-> k[i].mode]] :
     k \in kindSeqs(kinds, max), scheme \in {"asc", "desc"}}

Init ==
  /\ input \in Inputs
  /\ steps \in PipelinesOver(StepKinds, MaxSteps)
  /\ pc = "loop"
  /\ idx = 1
  /\ currentValue = input
  /\ results = <<>>
  /\ finalOutput = <<>>
  /\ warnings = <<>>
  /\ registryIdle
  /\ detectIdle
  /\ md5Idle
  /\ uiIdle

Next == ExecStep \/ ExecReturn

Spec == Init /\ [][Next]_vars

(***************************************************************************)
(* Properties of executePipeline                                           *)
(***************************************************************************)
Max(S) == CHOOSE m \in S : \A x \in S : x <= m

\* the output of the nearest result before position i that succeeded, or
\* the original input
lastAdvancedBefore(i) ==
  LET S == {j \in 1..(i - 1) : results[j].success}
  IN IF S = {} THEN input ELSE results[Max(S)].output

isRegistered(transformationId) ==
  \E k \in 1..Len(transformations) : transformations[k].id = transformationId

\* C1: the steps are processed in list order and the value is threaded: the
\* i-th result belongs to the i-th step and its input is the output of the
\* nearest preceding successful result, or the original input.
C1_Threading ==
  /\ Len(results) = idx - 1
  /\ \A i \in 1..Len(results) :
       /\ results[i].stepId = steps[i].id
       /\ results[i].input = lastAdvancedBefore(i)

C1_Witness ==
  /\ pc = "done"
  /\ Len(results) >= 3
  /\ results[1].success /\ results[1].output # input
  /\ ~results[2].success
  /\ results[3].success /\ results[3].input = results[1].output

\* C2: a step with an unregistered transformationId fails with the error
\* "Transformation not found" and does not advance the value: the next step
\* (or the final output) receives the input the failing step received; on
\* "hi", [base64 encode, unknown-id encode] gives two results, the first
\* successful, and the Base64 of "hi" as final output.
C2_NotFound ==
  /\ \A i \in 1..Len(results) :
       ~isRegistered(steps[i].transformationId) =>
         /\ ~results[i].success
         /\ results[i].error = <<"Transformation not found">>
         /\ i < Len(results) => results[i + 1].input = results[i].input
         /\ (i = Len(steps) /\ pc = "done") => finalOutput = results[i].input
  /\ ( /\ pc = "done"
       /\ input = TextHi
       /\ Len(steps) = 2
       /\ steps[1].transformationId = "base64" /\ steps[1].mode = "encode"
       /\ steps[2].transformationId = "unknown-id" /\ steps[2].mode = "encode" )
     => /\ Len(results) = 2
        /\ results[1].success /\ results[1].output = TextHiBase64
        /\ ~results[2].success
        /\ finalOutput = TextHiBase64

C2_Witness ==
  /\ pc = "done"
  /\ input = TextHi
  /\ Len(steps) = 2
  /\ steps[1].transformationId = "base64" /\ steps[1].mode = "encode"
  /\ steps[2].transformationId = "unknown-id" /\ steps[2].mode = "encode"
  /\ results[2].error = <<"Transformation not found">>

\* C3: a step whose transformation is registered but has no function for
\* the step's mode fails with an error message that names the mode and the
\* transformation's name, and does not advance the value.
C3_UnsupportedMode ==
  \A i \in 1..Len(results) : \A k \in 1..Len(transformations) :
    ( /\ transformations[k].id = steps[i].transformationId
      /\ ~(IF steps[i].mode = "encode" THEN transformations[k].encode
           ELSE transformations[k].decode) )
    => /\ ~results[i].success
       /\ \E a, b \in 1..Len(results[i].error) :
            /\ results[i].error[a] = steps[i].mode
            /\ results[i].error[b] = transformations[k].name
       /\ i < Len(results) => results[i + 1].input = results[i].input
       /\ (i = Len(steps) /\ pc = "done") => finalOutput = results[i].input

C3_Witness ==
  /\ pc = "done"
  /\ \E i \in 1..Len(results) :
       /\ i > 1 /\ results[i - 1].success
       /\ steps[i].transformationId = "uppercase" /\ steps[i].mode = "decode"
       /\ results[i].error = <<"decode", " not supported for ", "Uppercase">>
       /\ i < Len(results)

\* C4: a failing step never aborts the pipeline: the call returns one result
\* per step, in step order and carrying the step's id, and the step after a
\* failed one runs on the value the failed one received.
C4_NeverAborts ==
  pc = "done" =>
    /\ Len(results) = Len(steps)
    /\ \A i \in 1..Len(steps) :
         /\ results[i].stepId = steps[i].id
         /\ (~results[i].success /\ i < Len(steps))
              => results[i + 1].input = results[i].input

\* an unregistered id, a missing mode and a throwing decode, then a success
C4_Witness ==
  /\ pc = "done"
  /\ Len(steps) = 4
  /\ \A i \in 1..3 : ~results[i].success
  /\ \E i, j, k \in 1..3 :
       /\ results[i].error = <<"Transformation not found">>
       /\ results[j].error = <<"decode", " not supported for ", "Uppercase">>
       /\ results[k].error \in {URIMalformed, InvalidCharacter}
  /\ results[4].success

\* C5: the final output is the output of the last successful result, or the
\* original input when no step succeeded; an empty pipeline returns the
\* input and no results.
C5_FinalOutput ==
  pc = "done" =>
    /\ finalOutput = lastAdvancedBefore(Len(results) + 1)
    /\ steps = <<>> => (finalOutput = input /\ results = <<>>)

C5_Witness ==
  /\ pc = "done"
  /\ Len(results) >= 2
  /\ results[1].success /\ results[1].output # input
  /\ ~results[Len(results)].success
  /\ finalOutput # input

(***************************************************************************)
(* analyzePipeline                                                         *)
(***************************************************************************)
\* hashTransformIds without 'md5'
hashTransformIdsWithoutMd5 == {"hash", "sha256", "sha512"}

hashTransformIds == {"hash", "sha256", "sha512", "md5"}

analysisTransformIds == {"frequency", "char-stats", "qrcode"}

\* the leading label of each warning's message
msgIrreversible == "IRREVERSIBLE"

msgPartialLoss == "PARTIAL LOSS"

msgHashDetected == "HASH DETECTED"

msgAnalysisMode == "ANALYSIS MODE"

msgChainRisk == "CHAIN RISK"

msgMultipleIrreversible == "MULTIPLE IRREVERSIBLE"

\* the transformation the loop resolves for the i-th step, with the test
\* `if (!transformation) continue` folded in: has(list, i) is false for a
\* skipped step
has(list, i) == getTransformation(list[i].transformationId) # NULL

at(list, i) == getTransformation(list[i].transformationId)

\* the ids pushed, in loop order, by the steps whose position is in keep
RECURSIVE pushed(_, _, _)
pushed(list, keep, i) ==
  IF i > Len(list) THEN <<>>
  ELSE (IF i \in keep THEN <<list[i].id>> ELSE <<>>) \o pushed(list, keep, i + 1)

\* irreversibleSteps collecting every step that is not reversible
irreversibleStepsNotReversible(list) ==
  pushed(list, {i \in 1..Len(list) :
                  has(list, i) /\ at(list, i).reversibility # "reversible"}, 1)

irreversibleSteps(list) ==
  pushed(list, {i \in 1..Len(list) :
                  has(list, i) /\ at(list, i).reversibility = "irreversible"}, 1)

\* partialSteps without the `else` and with the test negated on 'reversible'
partialStepsNotReversible(list) ==
  pushed(list, {i \in 1..Len(list) :
                  has(list, i) /\ at(list, i).reversibility # "reversible"}, 1)

partialSteps(list) ==
  pushed(list, {i \in 1..Len(list) :
                  /\ has(list, i)
                  /\ at(list, i).reversibility # "irreversible"
                  /\ at(list, i).reversibility = "partial"}, 1)

hashSteps(list) ==
  pushed(list, {i \in 1..Len(list) :
                  has(list, i) /\ at(list, i).id \in hashTransformIds}, 1)

analysisSteps(list) ==
  pushed(list, {i \in 1..Len(list) :
                  has(list, i) /\ at(list, i).id \in analysisTransformIds}, 1)

\* getTransformation(s.transformationId)?.id || ''
idOrEmpty(transformationId) ==
  LET t == getTransformation(transformationId)
  IN IF t = NULL THEN "" ELSE t.id

hasHash(list) ==
  \E i \in 1..Len(list) : idOrEmpty(list[i].transformationId) \in hashTransformIds

\* hasEncoding without the test of the step's mode
hasEncodingAnyMode(list) ==
  \E i \in 1..Len(list) :
    LET t == getTransformation(list[i].transformationId)
    IN t # NULL /\ t.category = "Base Encoding"

hasEncoding(list) ==
  \E i \in 1..Len(list) :
    LET t == getTransformation(list[i].transformationId)
    IN t # NULL /\ t.category = "Base Encoding" /\ list[i].mode = "encode"

allStepIds(list) == [i \in 1..Len(list) |-> list[i].id]

warningIf(cond, type, message, stepIds) ==
  IF cond THEN <<[type |-> type, message |-> message, stepIds |-> stepIds]>>
  ELSE <<>>

\* analyzePipeline with the last rule nested in the `else` of the rule before
analyzePipelineElseMultiple(list) ==
  LET irreversible == irreversibleSteps(list)
      partial == partialSteps(list)
      hashes == hashSteps(list)
      analysis == analysisSteps(list)
  IN warningIf(Len(irreversible) > 0, "irreversible", msgIrreversible,
               irreversible)
     \o warningIf(Len(partial) > 0, "data-loss", msgPartialLoss, partial)
     \o warningIf(Len(hashes) > 0, "irreversible", msgHashDetected, hashes)
     \o warningIf(Len(analysis) > 0, "irreversible", msgAnalysisMode, analysis)
     \o warningIf(hasHash(list) /\ hasEncoding(list), "chain-risk",
                  msgChainRisk, allStepIds(list))
     \o warningIf(~(hasHash(list) /\ hasEncoding(list))
                  /\ Len(irreversible) > 1, "chain-risk",
                  msgMultipleIrreversible, irreversible)

analyzePipeline(list) ==
  LET irreversible == irreversibleSteps(list)
      partial == partialSteps(list)
      hashes == hashSteps(list)
      analysis == analysisSteps(list)
  IN warningIf(Len(irreversible) > 0, "irreversible", msgIrreversible,
               irreversible)
     \o warningIf(Len(partial) > 0, "data-loss", msgPartialLoss, partial)
     \o warningIf(Len(hashes) > 0, "irreversible", msgHashDetected, hashes)
     \o warningIf(Len(analysis) > 0, "irreversible", msgAnalysisMode, analysis)
     \o warningIf(hasHash(list) /\ hasEncoding(list), "chain-risk",
                  msgChainRisk, allStepIds(list))
     \o warningIf(Len(irreversible) > 1, "chain-risk",
                  msgMultipleIrreversible, irreversible)

Analyze ==
  /\ pc = "ready"
  /\ warnings' = analyzePipeline(steps)
  /\ pc' = "analyzed"
  /\ UNCHANGED <<input, steps, idx, currentValue, results, finalOutput>>
  /\ UNCHANGED <<registryVars, detectVars, md5Vars, uiVars>>

MaxAnalyzeSteps == 3

AnalyzeKinds ==
  {[transformationId |-> "base64", mode |-> "encode"],
   [transformationId |-> "base64", mode |-> "decode"],
   [transformationId |-> "hex", mode |-> "encode"],
   [transformationId |-> "rot13", mode |-> "encode"],
   [transformationId |-> "leet-light", mode |-> "encode"],
   [transformationId |-> "uppercase", mode |-> "encode"],
   [transformationId |-> "leet-heavy", mode |-> "encode"],
   [transformationId |-> "hash", mode |-> "encode"],
   [transformationId |-> "sha256", mode |-> "encode"],
   [transformationId |-> "sha512", mode |-> "encode"],
   [transformationId |-> "md5", mode |-> "encode"],
   [transformationId |-> "frequency", mode |-> "encode"],
   [transformationId |-> "char-stats", mode |-> "encode"],
   [transformationId |-> "bruteforce-caesar", mode |-> "decode"],
   [transformationId |-> "qrcode", mode |-> "encode"],
   [transformationId |-> "unknown-id", mode |-> "encode"]}

InitAnalyze ==
  /\ steps \in PipelinesOver(AnalyzeKinds, MaxAnalyzeSteps)
  /\ pc = "ready"
  /\ input = <<>>
  /\ idx = 1
  /\ currentValue = <<>>
  /\ results = <<>>
  /\ finalOutput = <<>>
  /\ warnings = <<>>
  /\ registryIdle
  /\ detectIdle
  /\ md5Idle
  /\ uiIdle

NextAnalyze == Analyze

SpecAnalyze == InitAnalyze /\ [][NextAnalyze]_vars

(***************************************************************************)
(* Properties of analyzePipeline                                           *)
(***************************************************************************)
\* the positions of the steps whose transformation is registered with the
\* given reversibility / category
stepsOfReversibility(r) ==
  {i \in 1..Len(steps) :
     \E k \in 1..Len(transformations) :
       /\ transformations[k].id = steps[i].transformationId
       /\ transformations[k].reversibility = r}

stepsOfCategory(c) ==
  {i \in 1..Len(steps) :
     \E k \in 1..Len(transformations) :
       /\ transformations[k].id = steps[i].transformationId
       /\ transformations[k].category = c}

\* the positions of the steps whose transformationId is in ids
stepsWithId(ids) == {i \in 1..Len(steps) : steps[i].transformationId \in ids}

\* stepIds lists exactly the ids of the steps at positions P, in pipeline order
listsExactly(stepIds, P) ==
  /\ Len(stepIds) = Cardinality(P)
  /\ \A a \in 1..Len(stepIds) :
       \E i \in P : /\ stepIds[a] = steps[i].id
                    /\ Cardinality({j \in P : j < i}) = a - 1

warningsOfMessage(m) == {w \in 1..Len(warnings) : warnings[w].message = m}

warningsOfType(t) == {w \in 1..Len(warnings) : warnings[w].type = t}

\* C6: the generic 'irreversible' warning is emitted exactly when some
\* step's transformation is irreversible, at most once, and lists exactly
\* the ids of those steps in pipeline order.
C6_GenericIrreversible ==
  pc = "analyzed" =>
    LET P == stepsOfReversibility("irreversible")
        W == warningsOfMessage(msgIrreversible)
    IN /\ (W # {}) <=> (P # {})
       /\ Cardinality(W) <= 1
       /\ \A w \in W : /\ warnings[w].type = "irreversible"
                       /\ listsExactly(warnings[w].stepIds, P)

C6_Witness ==
  /\ pc = "analyzed"
  /\ Len(steps) = 3
  /\ \E w \in 1..Len(warnings) :
       /\ warnings[w].message = msgIrreversible
       /\ Len(warnings[w].stepIds) = 2
  /\ \E i \in 1..3 : steps[i].transformationId = "leet-light"

\* C7: one 'data-loss' warning is emitted exactly when some step's
\* transformation is partial, it lists exactly the ids of those steps, and
\* no step id is both in it and in the generic 'irreversible' warning.
C7_DataLoss ==
  pc = "analyzed" =>
    LET P == stepsOfReversibility("partial")
        W == warningsOfType("data-loss")
        G == warningsOfMessage(msgIrreversible)
    IN /\ Cardinality(W) = (IF P # {} THEN 1 ELSE 0)
       /\ \A w \in W : listsExactly(warnings[w].stepIds, P)
       /\ \A w \in W : \A g \in G :
            \A a \in 1..Len(warnings[w].stepIds) :
              \A b \in 1..Len(warnings[g].stepIds) :
                warnings[w].stepIds[a] # warnings[g].stepIds[b]

C7_Witness ==
  /\ pc = "analyzed"
  /\ \E w, g \in 1..Len(warnings) :
       /\ warnings[w].type = "data-loss" /\ Len(warnings[w].stepIds) = 2
       /\ warnings[g].message = msgIrreversible

\* C8: a pipeline with a step whose id is hash, sha256, sha512 or md5 gets,
\* besides the generic 'irreversible' warning, a second 'irreversible'
\* warning with another message that lists exactly the hash steps; a single
\* sha256 encode step gets at least two 'irreversible' warnings that both
\* list its id.
C8_HashWarning ==
  pc = "analyzed" =>
    LET P == stepsWithId({"hash", "sha256", "sha512", "md5"})
        I == warningsOfType("irreversible")
    IN /\ P # {} =>
            \E g, h \in I :
              /\ warnings[g].message = msgIrreversible
              /\ warnings[h].message # msgIrreversible
              /\ listsExactly(warnings[h].stepIds, P)
       /\ ( /\ Len(steps) = 1
            /\ steps[1].transformationId = "sha256"
            /\ steps[1].mode = "encode" )
          => \E g, h \in I :
               /\ g # h
               /\ warnings[g].stepIds = <<steps[1].id>>
               /\ warnings[h].stepIds = <<steps[1].id>>

C8_Witness ==
  /\ pc = "analyzed"
  /\ Len(steps) = 3
  /\ steps[1].transformationId = "md5"
  /\ steps[2].transformationId = "leet-heavy"
  /\ steps[3].transformationId = "sha256"
  /\ \E h \in 1..Len(warnings) :
       /\ warnings[h].message = msgHashDetected
       /\ warnings[h].stepIds = <<steps[1].id, steps[3].id>>

\* C9: a pipeline with a step whose transformationId is frequency,
\* char-stats or qrcode gets an 'irreversible' warning specific to the
\* analysis tools that lists exactly those steps.
C9_AnalysisWarning ==
  pc = "analyzed" =>
    LET P == stepsWithId({"frequency", "char-stats", "qrcode"})
    IN P # {} =>
         \E w \in 1..Len(warnings) :
           /\ warnings[w].type = "irreversible"
           /\ warnings[w].message = msgAnalysisMode
           /\ listsExactly(warnings[w].stepIds, P)

hashAndEncoding ==
  /\ stepsWithId({"hash", "sha256", "sha512", "md5"}) # {}
  /\ \E i \in stepsOfCategory("Base Encoding") :
       steps[i].mode = "encode"

\* C10 as stated: one 'chain-risk' warning whose stepIds are the ids of
\* every step is emitted exactly when the pipeline has both a hash step and
\* a Base Encoding step in encode mode.
C10_ChainRiskAllSteps ==
  pc = "analyzed" =>
    LET W == {w \in warningsOfType("chain-risk") :
                warnings[w].stepIds = [i \in 1..Len(steps) |-> steps[i].id]}
    IN (Cardinality(W) = 1) <=> hashAndEncoding

\* C10 amended: the 'chain-risk' warning about encoding after hashing is
\* emitted, once and with the ids of every step, exactly when the pipeline
\* has both a hash step and a Base Encoding step in encode mode (a Base
\* Encoding step in decode mode does not count).
C10_EncodingAfterHashing ==
  pc = "analyzed" =>
    LET W == warningsOfMessage(msgChainRisk)
    IN /\ Cardinality(W) = (IF hashAndEncoding THEN 1 ELSE 0)
       /\ \A w \in W : /\ warnings[w].type = "chain-risk"
                       /\ warnings[w].stepIds =
                            [i \in 1..Len(steps) |-> steps[i].id]

C10_Witness ==
  /\ pc = "analyzed"
  /\ Len(steps) = 3
  /\ steps[1].transformationId = "sha256"
  /\ steps[2].transformationId = "base64" /\ steps[2].mode = "decode"
  /\ steps[3].transformationId = "hex" /\ steps[3].mode = "encode"
  /\ \E w \in 1..Len(warnings) :
       /\ warnings[w].message = msgChainRisk
       /\ Len(warnings[w].stepIds) = 3


\* C11: one 'chain-risk' warning listing exactly the ids of the irreversible
\* steps is emitted exactly when more than one step is irreversible (two
\* steps with the same transformation count as two), whatever other rules
\* fire on the same call.
C11_MultipleIrreversible ==
  pc = "analyzed" =>
    LET P == stepsOfReversibility("irreversible")
        W == {w \in warningsOfType("chain-risk") :
                listsExactly(warnings[w].stepIds, P)}
    IN Cardinality(W) = (IF Cardinality(P) > 1 THEN 1 ELSE 0)

\* twice the same irreversible transformation and an encoding: four of the
\* six rules fire together
C11_Witness ==
  /\ pc = "analyzed"
  /\ Len(steps) = 3
  /\ steps[1].transformationId = "sha256"
  /\ steps[2].transformationId = "hex" /\ steps[2].mode = "encode"
  /\ steps[3].transformationId = "sha256"
  /\ Len(warnings) = 4
  /\ warnings[3].message = msgChainRisk
  /\ warnings[4].message = msgMultipleIrreversible
  /\ warnings[4].stepIds = <<steps[1].id, steps[3].id>>


(***************************************************************************)
(* getTransformationsForMode.  Array.prototype.filter visits the catalog   *)
(* in index order, one element per FilterStep.                             *)
(***************************************************************************)
\* no pipeline call in progress
pipelineIdle ==
  /\ input = <<>>
  /\ steps = <<>>
  /\ idx = 1
  /\ currentValue = <<>>
  /\ results = <<>>
  /\ finalOutput = <<>>
  /\ warnings = <<>>

\* passesFilter with t.canEncode in both callbacks
passesFilterCanEncode(t, m) == t.canEncode

\* the test of the filter callback: t => t.canEncode, t => t.canDecode
passesFilter(t, m) == IF m = "encode" THEN t.canEncode ELSE t.canDecode

\* one visit of transformations.filter(...)
FilterStep ==
  /\ pc = "list"
  /\ listMode \in {"encode", "decode"}
  /\ cursor <= Len(catalog)
  /\ listed' = IF passesFilter(catalog[cursor], listMode)
                 THEN Append(listed, catalog[cursor]) ELSE listed
  /\ cursor' = cursor + 1
  /\ UNCHANGED <<pc, catalog, listMode>>
  /\ UNCHANGED <<pipelineVars, detectVars, md5Vars, uiVars>>

\* return transformations.filter(...)
FilterReturn ==
  /\ pc = "list"
  /\ listMode \in {"encode", "decode"}
  /\ cursor > Len(catalog)
  /\ pc' = "listed"
  /\ UNCHANGED registryVars
  /\ UNCHANGED <<pipelineVars, detectVars, md5Vars, uiVars>>

\* return transformations
ReturnCatalog ==
  /\ pc = "list"
  /\ listMode \notin {"encode", "decode"}
  /\ listed' = catalog
  /\ pc' = "listed"
  /\ UNCHANGED <<catalog, listMode, cursor>>
  /\ UNCHANGED <<pipelineVars, detectVars, md5Vars, uiVars>>

\* InitRegistry with a decode function left on 'uppercase' (canDecode false)
InitRegistryStrayDecode ==
  /\ catalog = [i \in 1..Len(transformations) |->
                  IF transformations[i].id = "uppercase"
                    THEN [transformations[i] EXCEPT !.decode = TRUE]
                    ELSE transformations[i]]
  /\ listMode \in {"encode", "decode", "detect"}
  /\ cursor = 1
  /\ listed = <<>>
  /\ pc = "list"
  /\ pipelineIdle
  /\ detectIdle
  /\ md5Idle
  /\ uiIdle

InitRegistry ==
  /\ catalog = transformations
  /\ listMode \in {"encode", "decode", "detect"}
  /\ cursor = 1
  /\ listed = <<>>
  /\ pc = "list"
  /\ pipelineIdle
  /\ detectIdle
  /\ md5Idle
  /\ uiIdle

NextRegistry == FilterStep \/ FilterReturn \/ ReturnCatalog

SpecRegistry == InitRegistry /\ [][NextRegistry]_vars

\* C12: in every descriptor of the registry, canEncode false implies no
\* encode function and canDecode false implies no decode function.
C12_CapabilityFlags ==
  \A i \in 1..Len(catalog) :
    /\ ~catalog[i].canEncode => ~catalog[i].encode
    /\ ~catalog[i].canDecode => ~catalog[i].decode

\* the catalog has descriptors without canDecode and without canEncode, and
\* a listing has visited them
C12_Witness ==
  /\ pc = "listed"
  /\ listMode = "decode"
  /\ \E i, j \in 1..Len(catalog) :
       /\ catalog[i].id = "uppercase" /\ ~catalog[i].canDecode
       /\ catalog[j].id = "zerowidth-decode" /\ ~catalog[j].canEncode
       /\ cursor > i /\ cursor > j

\* the positions of the catalog that a listing for m returns
listedPositions(m) ==
  {i \in 1..Len(transformations) :
     CASE m = "encode" -> transformations[i].canEncode
       [] m = "decode" -> transformations[i].canDecode
       [] OTHER -> TRUE}

\* C13: the listing for 'encode' is exactly the descriptors with canEncode,
\* for 'decode' those with canDecode, for 'detect' the whole catalog, each in
\* declaration order, and the catalog is left as declared.
C13_ListByCapability ==
  /\ catalog = transformations
  /\ pc = "listed" =>
       LET K == listedPositions(listMode)
       IN /\ Len(listed) = Cardinality(K)
          /\ \A a \in 1..Len(listed) :
               \E i \in K : /\ listed[a] = transformations[i]
                            /\ Cardinality({j \in K : j < i}) = a - 1

C13_Witness ==
  /\ pc = "listed"
  /\ listMode = "decode"
  /\ Len(listed) < Len(catalog)
  /\ listed[1].id = "base64"
  /\ listed[Len(listed)].id = "bruteforce-caesar"


(***************************************************************************)
(* Round trips: executePipeline on [T encode, T decode] for the reversible *)
(* transformations whose functions are modelled, on every text of at most  *)
(* MaxTextLen characters over RoundTripAlphabet and on a few longer ones.  *)
(***************************************************************************)
MaxTextLen == 2

\* & < ; a and U+00E9
RoundTripAlphabet == {38, 60, 59, 97, 233}

RoundTripTexts ==
  UNION {[1..n -> RoundTripAlphabet] : n \in 0..MaxTextLen}
  \cup {EntityLt, TextHi, TextSecret}

RoundTripIds == {"base64", "rot13", "reverse", "html-entity"}

InitRoundTrip ==
  /\ input \in RoundTripTexts
  /\ \E t \in RoundTripIds :
       steps = <<[id |-> 1, transformationId |-> t, mode |-> "encode"],
                 [id |-> 2, transformationId |-> t, mode |-> "decode"]>>
  /\ pc = "loop"
  /\ idx = 1
  /\ currentValue = input
  /\ results = <<>>
  /\ finalOutput = <<>>
  /\ warnings = <<>>
  /\ registryIdle
  /\ detectIdle
  /\ md5Idle
  /\ uiIdle

SpecRoundTrip == InitRoundTrip /\ [][Next]_vars

\* C14: a transformation the registry marks reversible has both functions,
\* and decoding what it encoded gives the text back.
C14_RoundTrip ==
  ( /\ pc = "done"
    /\ \E k \in 1..Len(transformations) :
         /\ transformations[k].id = steps[1].transformationId
         /\ transformations[k].reversibility = "reversible" )
  => /\ results[1].success
     /\ results[2].success
     /\ finalOutput = input


(***************************************************************************)
(* detectPossibleEncodings.  A character class is the set of its code      *)
(* units; the emoji literals are the code units the source file holds.     *)
(***************************************************************************)
UpperChars == 65..90

LowerChars == 97..122

DigitChars == 48..57

\* [A-Za-z0-9_-]
JwtChars == UpperChars \cup LowerChars \cup DigitChars \cup {95, 45}

\* [A-Za-z0-9+/]
Base64Chars == UpperChars \cup LowerChars \cup DigitChars \cup {43, 47}

\* [A-Z2-7] under the i flag
Base32Chars == UpperChars \cup LowerChars \cup (50..55)

\* the Bitcoin alphabet: no 0, I, O, l
Base58Chars == (49..57) \cup (UpperChars \ {73, 79}) \cup (LowerChars \ {108})

\* [0-9a-fA-F]
HexChars == DigitChars \cup (97..102) \cup (65..70)

\* \w
WordChars == UpperChars \cup LowerChars \cup DigitChars \cup {95}

\* the code units of the class of the binary-emoji test
BinaryEmojiChars == {8218, 246, 180, 8482}

emojiAlphabetChars ==
  {<<63743, 252, 231, 233>>, <<63743, 252, 231, 229>>, <<63743, 252, 234, 177>>,
   <<63743, 252, 234, 239>>, <<63743, 252, 182, 214>>, <<63743, 252, 234, 8719>>,
   <<63743, 252, 231, 225>>, <<63743, 252, 232, 8224>>, <<63743, 252, 231, 182>>,
   <<63743, 252, 201, 232>>, <<63743, 252, 238, 235>>, <<63743, 252, 182, 197>>,
   <<63743, 252, 229, 244>>, <<63743, 252, 236, 8734>>, <<63743, 252, 234, 244>>,
   <<63743, 252, 231, 239>>, <<63743, 252, 235, 8719>>, <<63743, 252, 229, 224>>,
   <<8218, 8800, 234>>, <<63743, 252, 229, 8804>>, <<8218, 242, 199, 212, 8719, 232>>,
   <<63743, 252, 233, 170>>, <<63743, 252, 234, 227>>, <<8218, 250, 241, 212, 8719, 232>>,
   <<63743, 252, 237, 245>>, <<8218, 246, 176>>}

skinTones ==
  {<<63743, 252, 232, 170>>,
   <<63743, 252, 232, 186>>,
   <<63743, 252, 232, 937>>,
   <<63743, 252, 232, 230>>,
   <<63743, 252, 232, 248>>}

\* the waving hand of the skin-tone test
WaveEmoji == <<63743, 252, 235, 227>>

\* /^[set]+$/.test(s)
allIn(s, set) == Len(s) >= 1 /\ \A i \in 1..Len(s) : s[i] \in set

\* /^[set]+=*$/.test(s)
runThenEquals(s, set) ==
  \E k \in 1..Len(s) :
    /\ \A i \in 1..k : s[i] \in set
    /\ \A i \in (k + 1)..Len(s) : s[i] = 61

\* s.includes(lit)
includes(s, lit) == \E i \in 1..Len(s) : hasAt(s, i, lit)

\* /prefix[set]+;/.test(s)
hasEntity(s, prefix, set) ==
  \E i \in 1..Len(s) : \E j \in (i + Len(prefix) + 1)..Len(s) :
    /\ hasAt(s, i, prefix)
    /\ s[j] = 59
    /\ \A k \in (i + Len(prefix))..(j - 1) : s[k] \in set

\* /^[A-Za-z0-9_-]+\.[A-Za-z0-9_-]+\.[A-Za-z0-9_-]*$/.test(s)
looksLikeJwt(s) ==
  \E i \in 2..Len(s) : \E j \in (i + 2)..Len(s) :
    /\ s[i] = 46
    /\ s[j] = 46
    /\ \A k \in (1..Len(s)) \ {i, j} : s[k] \in JwtChars

\* /%[0-9A-Fa-f]{2}/.test(s)
hasPercentEscape(s) ==
  \E i \in 1..(Len(s) - 2) :
    s[i] = 37 /\ s[i + 1] \in HexChars /\ s[i + 2] \in HexChars

\* /\\u[0-9a-fA-F]{4}/.test(s)
hasUnicodeEscape(s) ==
  \E i \in 1..(Len(s) - 5) :
    /\ s[i] = 92
    /\ s[i + 1] = 117
    /\ \A k \in 2..5 : s[i + k] \in HexChars

\* /^[\t ]+\n?$/.test(s)
looksLikeWhitespace(s) ==
  \/ allIn(s, {9, 32})
  \/ /\ Len(s) >= 2
     /\ s[Len(s)] = 10
     /\ allIn(SubSeq(s, 1, Len(s) - 1), {9, 32})

\* s.replace(/\s/g, '').length
nonSpaceLength(s) == Cardinality({i \in 1..Len(s) : s[i] \notin SpaceChars})

\* the heuristics in the order they are evaluated: whether the test holds
\* and the ids it looks up and pushes
heuristics(s) ==
  <<[ids |-> <<"jwt-decode">>, matches |-> looksLikeJwt(s)],
    [ids |-> <<"base64">>,
     matches |-> runThenEquals(s, Base64Chars) /\ Len(s) % 4 = 0],
    [ids |-> <<"base32">>, matches |-> runThenEquals(s, Base32Chars)],
    [ids |-> <<"base58">>, matches |-> allIn(s, Base58Chars)],
    [ids |-> <<"base85">>,
     matches |-> hasAt(s, 1, <<60, 126>>) /\ Len(s) >= 2
                 /\ hasAt(s, Len(s) - 1, <<126, 62>>)],
    [ids |-> <<"hex">>, matches |-> allIn(s, HexChars) /\ Len(s) % 2 = 0],
    [ids |-> <<"binary">>, matches |-> allIn(s, {48, 49} \cup SpaceChars)],
    [ids |-> <<"url">>, matches |-> hasPercentEscape(s)],
    [ids |-> <<"html-entity">>,
     matches |-> \/ hasEntity(s, <<38, 35>>, DigitChars)
                 \/ hasEntity(s, <<38, 35, 120>>, HexChars)
                 \/ hasEntity(s, <<38>>, WordChars)],
    [ids |-> <<"unicode-escape">>, matches |-> hasUnicodeEscape(s)],
    [ids |-> <<"braille">>,
     matches |-> \E i \in 1..Len(s) : s[i] \in 10240..10495],
    [ids |-> <<"zerowidth-decode", "zerowidth-reveal">>,
     matches |-> \E i \in 1..Len(s) : s[i] \in {8203, 8204, 8205}],
    [ids |-> <<"binary-emoji">>, matches |-> allIn(s, BinaryEmojiChars)],
    [ids |-> <<"emoji-alphabet">>,
     matches |-> \E emoji \in emojiAlphabetChars : includes(s, emoji)],
    [ids |-> <<"punctuation">>,
     matches |-> allIn(s, {46, 44}) /\ Len(s) >= 8],
    [ids |-> <<"whitespace">>,
     matches |-> looksLikeWhitespace(s) /\ Len(s) >= 8],
    [ids |-> <<"emoji-skintone">>,
     matches |-> /\ includes(s, WaveEmoji)
                 /\ \E tone \in skinTones : includes(s, tone)],
    [ids |-> <<"morse">>,
     matches |-> /\ allIn(s, {46, 45, 47} \cup SpaceChars)
                 /\ includes(s, <<46>>)
                 /\ (includes(s, <<45>>) \/ includes(s, <<47>>))],
    [ids |-> <<"bacon">>,
     matches |-> /\ allIn(s, {65, 66, 97, 98} \cup SpaceChars)
                 /\ nonSpaceLength(s) % 5 = 0],
    [ids |-> <<"polybius">>,
     matches |-> /\ allIn(s, DigitChars \cup SpaceChars)
                 /\ \E i \in 1..(Len(s) - 1) :
                      s[i] \in 49..53 /\ s[i + 1] \in 49..53],
    [ids |-> <<"bruteforce-caesar">>,
     matches |-> /\ allIn(s, UpperChars \cup LowerChars \cup SpaceChars)
                 /\ Len(s) >= 10
                 /\ Len(s) <= 500]>>

\* the heuristics whose test holds, in order
matching(s) == SelectSeq(heuristics(s), LAMBDA h : h.matches)

\* `detected` after the pushes of the first i matching heuristics
RECURSIVE pushedCandidates(_, _)
pushedCandidates(hs, i) ==
  IF i = 0 THEN <<>>
  ELSE pushedCandidates(hs, i - 1)
       \o [k \in 1..Len(hs[i].ids) |-> getTransformation(hs[i].ids[k])]

\* detected.filter(Boolean)
detectPossibleEncodings(s) ==
  LET hs == matching(s)
  IN SelectSeq(pushedCandidates(hs, Len(hs)), LAMBDA t : t # NULL)


\* const detected = detectPossibleEncodings(input)
DetectPossible ==
  /\ pc = "detect"
  /\ detected' = detectPossibleEncodings(detectInput)
  /\ pc' = "detected"
  /\ UNCHANGED <<detectInput, maxDepth, scored, current, depth, layers>>
  /\ UNCHANGED <<pipelineVars, registryVars, md5Vars, uiVars>>

MaxDetectLen == 3

\* 4 a . = 1 and U+200B
DetectAlphabet == {52, 97, 46, 61, 49, 8203}

\* "deadbeefdeadbeef"
TextDeadBeef ==
  <<100, 101, 97, 100, 98, 101, 101, 102, 100, 101, 97, 100, 98, 101, 101, 102>>

\* the short texts over DetectAlphabet, and "48656c6c6f", "a.b.c",
\* "aaaaaaaaaaa.bbbbbbbbbbb.c", "-----------.-----------.", "-.-. / ...",
\* "&lt;%41", "aGk=", "deadbeefdeadbeef", "QQFC" (the Base64 of the bytes
\* 41 01 42) and "AQJB" (the Base64 of the bytes 01 02 41)
DetectTexts ==
  UNION {[1..n -> DetectAlphabet] : n \in 0..MaxDetectLen}
  \cup {<<52, 56, 54, 53, 54, 99, 54, 99, 54, 102>>,
        <<97, 46, 98, 46, 99>>,
        [i \in 1..11 |-> 97] \o <<46>> \o [i \in 1..11 |-> 98] \o <<46, 99>>,
        [i \in 1..11 |-> 45] \o <<46>> \o [i \in 1..11 |-> 45] \o <<46>>,
        <<45, 46, 45, 46, 32, 47, 32, 46, 46, 46>>,
        EntityLt \o <<37, 52, 49>>,
        TextHiBase64,
        TextDeadBeef,
        <<81, 81, 70, 67>>,
        <<65, 81, 74, 66>>}

InitDetect ==
  /\ detectInput \in DetectTexts
  /\ maxDepth = DefaultMaxDepth
  /\ detected = <<>>
  /\ scored = <<>>
  /\ current = <<>>
  /\ depth = 0
  /\ layers = <<>>
  /\ pc = "detect"
  /\ pipelineIdle
  /\ registryIdle
  /\ md5Idle
  /\ uiIdle

NextDetect == DetectPossible

SpecDetect == InitDetect /\ [][NextDetect]_vars

\* C15: the candidates are the transformations of the matching heuristics,
\* one per heuristic and in the order of evaluation; an even-length string
\* of hex digits has hex among its candidates.
C15_OnePerHeuristic ==
  pc = "detected" =>
    LET hs == matching(detectInput)
    IN /\ Len(detected) = Len(hs)
       /\ \A k \in 1..Len(hs) : detected[k].id = hs[k].ids[1]
       /\ (allIn(detectInput, HexChars) /\ Len(detectInput) % 2 = 0)
            => \E k \in 1..Len(detected) : detected[k].id = "hex"


(***************************************************************************)
(* detectWithConfidence                                                    *)
(***************************************************************************)
\* (decoded.match(/[\x20-\x7E]/g) || []).length
printableCount(decoded) ==
  Cardinality({i \in 1..Len(decoded) : decoded[i] >= 32 /\ decoded[i] <= 126})

\* the confidence of the Base64 check; the ratio of an empty text is NaN,
\* which passes neither comparison
base64Confidence(s) ==
  LET r == base64Decode(s)
  IN IF ~r.ok THEN 40
     ELSE IF Len(r.val) > 0 /\ 5 * printableCount(r.val) > 4 * Len(r.val)
       THEN 90
     ELSE IF Len(r.val) > 0 /\ 2 * printableCount(r.val) > Len(r.val)
       THEN 75
     ELSE 60

morseConfidence(s) ==
  IF includes(s, <<45>>) /\ includes(s, <<47>>) THEN 90
  ELSE IF includes(s, <<45>>) THEN 75
  ELSE 50

\* parts[k] of input.split('.') for an input with exactly two dots
jwtPartLength(s, k) ==
  LET dots == {i \in 1..Len(s) : s[i] = 46}
      first == CHOOSE i \in dots : \A j \in dots : i <= j
      second == CHOOSE i \in dots : \A j \in dots : i >= j
  IN IF k = 1 THEN first - 1 ELSE second - first - 1

\* `results` before the sort
confidenceResults(s) ==
  (IF looksLikeJwt(s) /\ jwtPartLength(s, 1) > 10 /\ jwtPartLength(s, 2) > 10
     THEN <<[transformation |-> getTransformation("jwt-decode"),
             confidence |-> 95,
             reason |-> "Matches JWT format (header.payload.signature)"]>>
     ELSE <<>>)
  \o
  (IF runThenEquals(s, Base64Chars) /\ Len(s) % 4 = 0 /\ Len(s) >= 4
     THEN <<[transformation |-> getTransformation("base64"),
             confidence |-> base64Confidence(s),
             reason |-> "Matches Base64 character set with valid padding"]>>
     ELSE <<>>)
  \o
  (IF allIn(s, HexChars) /\ Len(s) % 2 = 0 /\ Len(s) >= 2
     THEN <<[transformation |-> getTransformation("hex"),
             confidence |-> IF Len(s) > 8 THEN 80 ELSE 50,
             reason |-> "Even number of hexadecimal characters"]>>
     ELSE <<>>)
  \o
  (IF allIn(s, {46, 45, 47} \cup SpaceChars) /\ includes(s, <<46>>)
     THEN <<[transformation |-> getTransformation("morse"),
             confidence |-> morseConfidence(s),
             reason |-> "Contains Morse code characters (. - /)"]>>
     ELSE <<>>)

\* results.sort((a, b) => b.confidence - a.confidence) on the first n
\* results; the sort is stable
RECURSIVE sortByConfidence(_, _)
sortByConfidence(rs, n) ==
  IF n = 0 THEN <<>>
  ELSE LET sorted == sortByConfidence(rs, n - 1)
           before == Cardinality({i \in 1..Len(sorted) :
                                    sorted[i].confidence >= rs[n].confidence})
       IN SubSeq(sorted, 1, before) \o <<rs[n]>>
          \o SubSeq(sorted, before + 1, Len(sorted))

\* detectWithConfidence returning `results` as pushed
detectWithConfidenceUnsorted(s) == confidenceResults(s)

detectWithConfidence(s) ==
  sortByConfidence(confidenceResults(s), Len(confidenceResults(s)))

\* const results = detectWithConfidence(input)
DetectConfidence ==
  /\ pc = "detect"
  /\ scored' = detectWithConfidence(detectInput)
  /\ pc' = "scored"
  /\ UNCHANGED <<detectInput, maxDepth, detected, current, depth, layers>>
  /\ UNCHANGED <<pipelineVars, registryVars, md5Vars, uiVars>>

NextConfidence == DetectConfidence

SpecConfidence == InitDetect /\ [][NextConfidence]_vars

\* C18: the results are in non-increasing order of confidence.
C18_SortedByConfidence ==
  pc = "scored" =>
    \A i \in 1..Len(scored) : \A j \in i..Len(scored) :
      scored[i].confidence >= scored[j].confidence

\* "deadbeefdeadbeef": the Base64 check pushes 40 before the Hex check
\* pushes 80, and the sort puts the Hex result first
C18_Witness ==
  /\ pc = "scored"
  /\ Len(scored) = 2
  /\ scored[1].confidence = 80
  /\ scored[1].transformation.id = "hex"
  /\ scored[2].confidence = 40
  /\ scored[2].transformation.id = "base64"

\* C19: every result names a descriptor of the registry and carries an
\* integer confidence between 0 and 100.
C19_ResultShape ==
  pc = "scored" =>
    \A k \in 1..Len(scored) :
      /\ \E i \in 1..Len(transformations) :
           transformations[i] = scored[k].transformation
      /\ scored[k].confidence \in 0..100


(***************************************************************************)
(* detectMultiLayer's choice of decoder.                                   *)
(***************************************************************************)
\* firstMatch.decode(current), for the decoders modelled above
decodeWith(transformation, value) ==
  CASE transformation.id = "base64" -> base64Decode(value)
    [] transformation.id = "base32" -> base32Decode(value)
    [] transformation.id = "base58" -> base58Decode(value)
    [] transformation.id = "hex" -> hexDecode(value)
    [] transformation.id = "binary" -> binaryDecode(value)
    [] transformation.id = "html-entity" -> htmlEntityDecode(value)


(***************************************************************************)
(* detectMultiLayer.  An entry of `layers` is the tuple of the parts of    *)
(* its template string.                                                    *)
(***************************************************************************)
\* what one pass of the loop body does with `current`: whether it reaches
\* the push, and the chosen name and the decoded value when it does
layerAttempt(cur) ==
  LET candidates == detectPossibleEncodings(cur)
  IN IF Len(candidates) = 0 THEN [advance |-> FALSE, stop |-> "no candidate"]
     ELSE IF ~candidates[1].decode
       THEN [advance |-> FALSE, stop |-> "no decode"]
     ELSE LET decoded == decodeWith(candidates[1], cur)
          IN IF ~decoded.ok THEN [advance |-> FALSE, stop |-> "throws"]
             ELSE IF decoded.val = cur
               THEN [advance |-> FALSE, stop |-> "unchanged"]
             ELSE IF Len(decoded.val) = 0
               THEN [advance |-> FALSE, stop |-> "empty"]
             ELSE [advance |-> TRUE, name |-> candidates[1].name,
                   val |-> decoded.val]

\* finalEntry with the whole value and no ellipsis
finalEntryWholeValue(cur) == <<"Final: ", cur, "">>

\* `Final: ${current.slice(0, 100)}${current.length > 100 ? '...' : ''}`
finalEntry(cur) ==
  <<"Final: ", SubSeq(cur, 1, IF Len(cur) < 100 THEN Len(cur) ELSE 100),
    IF Len(cur) > 100 THEN "..." ELSE "">>

\* one pass of the loop that pushes a layer
LayerStep ==
  /\ pc = "layer"
  /\ depth < maxDepth
  /\ layerAttempt(current).advance
  /\ layers' = Append(layers,
                      <<"Layer ", depth + 1, ": ", layerAttempt(current).name>>)
  /\ current' = layerAttempt(current).val
  /\ depth' = depth + 1
  /\ UNCHANGED <<pc, detectInput, maxDepth, detected, scored>>
  /\ UNCHANGED <<pipelineVars, registryVars, md5Vars, uiVars>>

\* the loop ends, by its condition or by a break, and the call returns
LayerReturn ==
  /\ pc = "layer"
  /\ (depth >= maxDepth \/ ~layerAttempt(current).advance)
  /\ layers' = IF Len(layers) > 0 THEN Append(layers, finalEntry(current))
               ELSE layers
  /\ pc' = "layered"
  /\ UNCHANGED <<detectInput, maxDepth, detected, scored, current, depth>>
  /\ UNCHANGED <<pipelineVars, registryVars, md5Vars, uiVars>>

MaxLayerLen == 3

\* a E = & ; 4
LayerAlphabet == {97, 69, 61, 38, 59, 52}

\* "end"
TextEnd == <<101, 110, 100>>

\* "Wlc1aw==", the Base64 of "ZW5k", the Base64 of "end"
TextEndTwice == <<87, 108, 99, 49, 97, 119, 61, 61>>

\* "ISEh" 33 times and "ISE=", the Base64 of 101 exclamation marks
TextBangs101 ==
  [i \in 1..132 |-> <<73, 83, 69, 104>>[((i - 1) % 4) + 1]] \o <<73, 83, 69, 61>>

\* the short texts over LayerAlphabet, and "Wlc1aw==", "deadbeefdeadbeef",
\* "202120" (the hex of " ! "), "aGk=", and the Base64 of 100 and of 101
\* exclamation marks
LayerTexts ==
  UNION {[1..n -> LayerAlphabet] : n \in 0..MaxLayerLen}
  \cup {TextEndTwice, TextDeadBeef, <<50, 48, 50, 49, 50, 48>>, TextHiBase64,
        [i \in 1..132 |-> <<73, 83, 69, 104>>[((i - 1) % 4) + 1]]
          \o <<73, 81, 61, 61>>,
        TextBangs101}

InitMultiLayer ==
  /\ detectInput \in LayerTexts
  /\ maxDepth \in 0..DefaultMaxDepth
  /\ detected = <<>>
  /\ scored = <<>>
  /\ current = detectInput
  /\ depth = 0
  /\ layers = <<>>
  /\ pc = "layer"
  /\ pipelineIdle
  /\ registryIdle
  /\ md5Idle
  /\ uiIdle

NextMultiLayer == LayerStep \/ LayerReturn

SpecMultiLayer == InitMultiLayer /\ [][NextMultiLayer]_vars


\* C16: with maxDepth 3, the Base64 of the Base64 of "end" gives two layer
\* entries and then a final entry that contains "end".
C16_TwoLayersThenEnd ==
  (pc = "layered" /\ detectInput = TextEndTwice /\ maxDepth = 3) =>
    /\ Len(layers) = 3
    /\ layers[1][1] = "Layer "
    /\ layers[2][1] = "Layer "
    /\ layers[3][1] = "Final: "
    /\ includes(layers[3][2], TextEnd)

\* the value after k layers: each layer decodes with the first candidate
RECURSIVE layerValue(_, _)
layerValue(s, k) ==
  IF k = 0 THEN s
  ELSE LET prev == layerValue(s, k - 1)
       IN decodeWith(detectPossibleEncodings(prev)[1], prev).val

\* C17: a call decodes at most maxDepth layers (each pass of the loop adds
\* one to depth, so the loop ends), each with the first candidate; it stops
\* when no candidate is found, the decode throws, or the decoded value is
\* unchanged or empty; it returns one entry per layer and a final entry cut
\* to 100 characters, or nothing when no layer was decoded.
C17_Layers ==
  /\ depth <= (IF maxDepth > 0 THEN maxDepth ELSE 0)
  /\ current = layerValue(detectInput, depth)
  /\ \A k \in 1..depth :
       layers[k] = <<"Layer ", k, ": ",
                     detectPossibleEncodings(layerValue(detectInput, k - 1))[1].name>>
  /\ pc = "layer" => Len(layers) = depth
  /\ pc = "layered" =>
       /\ Len(layers) = (IF depth = 0 THEN 0 ELSE depth + 1)
       /\ depth > 0 =>
            /\ layers[depth + 1][1] = "Final: "
            /\ layers[depth + 1][2]
                 = [i \in 1..(IF Len(current) < 100 THEN Len(current) ELSE 100)
                      |-> current[i]]
            /\ layers[depth + 1][3] = (IF Len(current) > 100 THEN "..." ELSE "")
       /\ LET candidates == detectPossibleEncodings(current)
          IN \/ depth >= maxDepth
             \/ Len(candidates) = 0
             \/ ~decodeWith(candidates[1], current).ok
             \/ decodeWith(candidates[1], current).val = current
             \/ Len(decodeWith(candidates[1], current).val) = 0

\* the Base64 of 101 exclamation marks: one layer, and a final entry of 100
\* characters and an ellipsis
C17_Witness ==
  /\ pc = "layered"
  /\ detectInput = TextBangs101
  /\ layers = <<<<"Layer ", 1, ": ", "Base64">>,
                <<"Final: ", [i \in 1..100 |-> 33], "...">>>>


(***************************************************************************)
(* md5Encode: the bytes of the message and their padding.                  *)
(***************************************************************************)
\* x >>> n for 0 <= x < 2^31: the shift count is taken modulo 32
unsignedShiftRight(x, n) == x \div (2 ^ (n % 32))

\* bytes.push(input.charCodeAt(i) & 0xFF)
messageBytes(s) == [i \in 1..Len(s) |-> s[i] % 256]

\* the zero bytes pushed while bytes.length % 64 !== 56, for a length n
\* reached after the 0x80 byte
zeroCount(n) == (56 - (n % 64) + 64) % 64

\* `bytes` after the padding loops
paddedBytes(s) ==
  LET originalLength == Len(s) * 8
  IN messageBytes(s) \o <<128>>
     \o [i \in 1..zeroCount(Len(s) + 1) |-> 0]
     \o [i \in 1..8 |-> unsignedShiftRight(originalLength, (i - 1) * 8) % 256]

\* the padding of md5Encode
Md5Pad ==
  /\ pc = "md5"
  /\ md5Bytes' = paddedBytes(md5Input)
  /\ pc' = "padded"
  /\ UNCHANGED md5Input
  /\ UNCHANGED <<pipelineVars, registryVars, detectVars, uiVars>>

MaxMessageLen == 4

\* a, b and the euro sign
Md5Alphabet == {97, 98, 8364}

Md5Messages ==
  UNION {[1..n -> Md5Alphabet] : n \in 0..MaxMessageLen}
  \cup {[i \in 1..n |-> 97] : n \in {55, 56, 64}}

InitMd5 ==
  /\ md5Input \in Md5Messages
  /\ md5Bytes = <<>>
  /\ pc = "md5"
  /\ pipelineIdle
  /\ registryIdle
  /\ detectIdle
  /\ uiIdle

NextMd5 == Md5Pad

SpecMd5 == InitMd5 /\ [][NextMd5]_vars

\* C20: the padded message is the message bytes, a 0x80 byte, zero bytes up
\* to 448 bits modulo 512, and the bit length as a 64-bit little-endian
\* integer, whose upper four bytes are zero.
C20_Padding ==
  pc = "padded" =>
    LET n == Len(md5Input)
        total == Len(md5Bytes)
    IN /\ total % 64 = 0
       /\ total >= n + 9
       /\ total < n + 9 + 64
       /\ \A i \in 1..n : md5Bytes[i] = md5Input[i] % 256
       /\ md5Bytes[n + 1] = 128
       /\ \A i \in (n + 2)..(total - 8) : md5Bytes[i] = 0
       /\ \A k \in 0..3 : md5Bytes[total - 7 + k] = ((n * 8) \div (256 ^ k)) % 256
       /\ \A k \in 4..7 : md5Bytes[total - 7 + k] = 0


(***************************************************************************)
(* The Affine cipher through the pipeline: [affine encode, affine decode]  *)
(* on every text of at most MaxAffineLen characters, letters and others.   *)
(***************************************************************************)
MaxAffineLen == 1

\* A-Z, a-z, space, 1 and U+00E9
AffineAlphabet == (65..90) \cup (97..122) \cup {32, 49, 233}

InitAffine ==
  /\ input \in UNION {[1..n -> AffineAlphabet] : n \in 0..MaxAffineLen}
  /\ steps = <<[id |-> 1, transformationId |-> "affine", mode |-> "encode"],
               [id |-> 2, transformationId |-> "affine", mode |-> "decode"]>>
  /\ pc = "loop"
  /\ idx = 1
  /\ currentValue = input
  /\ results = <<>>
  /\ finalOutput = <<>>
  /\ warnings = <<>>
  /\ registryIdle
  /\ detectIdle
  /\ md5Idle
  /\ uiIdle

SpecAffine == InitAffine /\ [][Next]_vars

\* C21: with a = 5 and b = 8, decoding the encoded text gives the text back,
\* letters keep their case, and a character that is not a letter is the same
\* in the input, the encoded text and the decoded text.
C21_AffineRoundTrip ==
  pc = "done" =>
    /\ results[1].success
    /\ results[2].success
    /\ finalOutput = input
    /\ \A i \in 1..Len(input) :
         IF IsLetter(input[i])
           THEN /\ IsLetter(results[1].output[i])
                /\ (results[1].output[i] <= 90) = (input[i] <= 90)
           ELSE /\ results[1].output[i] = input[i]
                /\ results[2].output[i] = input[i]

\* "z" is encoded to "d" and decoded back to "z"
C21_Witness ==
  /\ pc = "done"
  /\ input = <<122>>
  /\ results[1].success
  /\ results[1].output = <<100>>
  /\ finalOutput = <<122>>


(***************************************************************************)
(* Decoding what is not a codec's text: a pipeline of one hex or Base58    *)
(* decode step on every text of at most MaxMalformedLen characters.        *)
(***************************************************************************)
MaxMalformedLen == 2

\* 4 a z 0 l and space
MalformedAlphabet == {52, 97, 122, 48, 108, 32}

InitMalformed ==
  /\ input \in UNION {[1..n -> MalformedAlphabet] : n \in 0..MaxMalformedLen}
  /\ \E t \in {"hex", "base58"} :
       steps = <<[id |-> 1, transformationId |-> t, mode |-> "decode"]>>
  /\ pc = "loop"
  /\ idx = 1
  /\ currentValue = input
  /\ results = <<>>
  /\ finalOutput = <<>>
  /\ warnings = <<>>
  /\ registryIdle
  /\ detectIdle
  /\ md5Idle
  /\ uiIdle

SpecMalformed == InitMalformed /\ [][Next]_vars

\* C22: a hex decode step on a text with a character that is not a hex digit,
\* and a Base58 decode step on a text with a character outside the Base58
\* alphabet, are recorded with success = false.
C22_MalformedFails ==
  ( /\ pc = "done"
    /\ \E i \in 1..Len(input) :
         input[i] \notin (IF steps[1].transformationId = "hex"
                            THEN HexChars ELSE Base58Chars) )
  => ~results[1].success


(***************************************************************************)
(* The registry's AES through the pipeline: [aes encode, aes decode], each *)
(* step with its own key, on every text of at most MaxAesLen characters.   *)
(***************************************************************************)
MaxAesLen == 2

\* a : ]
AesAlphabet == {97, 58, 93}

\* "k" and "x"
AesKeys == {<<107>>, <<120>>}

InitAes ==
  /\ input \in UNION {[1..n -> AesAlphabet] : n \in 0..MaxAesLen}
  /\ \E k1 \in AesKeys : \E k2 \in AesKeys :
       steps = <<[id |-> 1, transformationId |-> "aes", mode |-> "encode",
                  options |-> [key |-> k1]],
                 [id |-> 2, transformationId |-> "aes", mode |-> "decode",
                  options |-> [key |-> k2]]>>
  /\ pc = "loop"
  /\ idx = 1
  /\ currentValue = input
  /\ results = <<>>
  /\ finalOutput = <<>>
  /\ warnings = <<>>
  /\ registryIdle
  /\ detectIdle
  /\ md5Idle
  /\ uiIdle

SpecAes == InitAes /\ [][Next]_vars

\* C23: an aes decode step whose key differs from the key of the encode step
\* does not succeed with the original plaintext.
C23_WrongKeyFails ==
  ( /\ pc = "done"
    /\ results[1].success
    /\ steps[1].options.key # steps[2].options.key )
  => ~(results[2].success /\ results[2].output = input)


(***************************************************************************)
(* Base85 through the pipeline: encode, then decode.                       *)
(***************************************************************************)
MaxBase85Len == 4

\* "a", NUL, U+0080 and e-acute: the last two have a UTF-8 lead byte >= 0x80
Base85Alphabet == {97, 0, 128, 233}

InitBase85 ==
  /\ pc = "loop"
  /\ input \in UNION {[1..n -> Base85Alphabet] : n \in 0..MaxBase85Len}
  /\ steps = <<[id |-> 1, transformationId |-> "base85", mode |-> "encode"],
               [id |-> 2, transformationId |-> "base85", mode |-> "decode"]>>
  /\ idx = 1
  /\ currentValue = input
  /\ results = <<>>
  /\ finalOutput = <<>>
  /\ warnings = <<>>
  /\ registryIdle
  /\ detectIdle
  /\ md5Idle
  /\ uiIdle

SpecBase85 == InitBase85 /\ [][Next]_vars

\* C30: base85Encode emits, between "<~" and "~>", only characters in
\* '!'..'u' or 'z', and base85Decode of its output is the input again, also
\* when the first byte of a 4-byte group is 0x80 or more
C30_Base85RoundTrip ==
  pc = "done" =>
    /\ results[1].success
    /\ \A i \in 3..(Len(results[1].output) - 2) :
         \/ results[1].output[i] \in 33..117
         \/ results[1].output[i] = 122
    /\ results[2].success
    /\ finalOutput = input


(***************************************************************************)
(* importPipeline (pipeline-utils.ts).  A JSON value is a record with a    *)
(* `kind`; an object carries its members in `fields`, an array its         *)
(* elements in `items`.  File content that JSON.parse rejects has the kind *)
(* "invalid".  A JavaScript string is the JSON value of kind "string".     *)
(***************************************************************************)
JsonNull == [kind |-> "null"]

JsonNumber == [kind |-> "number"]

JsonString(s) == [kind |-> "string", val |-> s]

\* v[name] for a parsed value v that is not null; NULL stands for undefined
member(v, name) ==
  IF v.kind = "object" /\ name \in DOMAIN v.fields THEN v.fields[name] ELSE NULL

\* the step copying the id of the document's step when it has one
importedStepKeepingId(step, uuid) ==
  [id |-> IF member(step, "id") # NULL THEN member(step, "id")
          ELSE JsonString(uuid),
   transformationId |-> member(step, "transformationId"),
   mode |-> member(step, "mode"),
   options |-> member(step, "options")]

\* the callback of data.steps.map
importedStep(step, uuid) ==
  [id |-> JsonString(uuid),
   transformationId |-> member(step, "transformationId"),
   mode |-> member(step, "mode"),
   options |-> member(step, "options")]

\* the body of the try block of reader.onload, crypto.randomUUID returning
\* ids[1], ids[2], ...
tryImport(content, ids) ==
  IF content.kind = "invalid" THEN Throw(<<"SyntaxError">>)
  ELSE IF content.kind = "null" THEN Throw(<<"TypeError">>)
  ELSE IF member(content, "steps") = NULL
          \/ member(content, "steps").kind # "array"
    THEN Throw(<<"Invalid pipeline file format">>)
  ELSE LET items == member(content, "steps").items
       IN IF \E i \in 1..Len(items) : items[i].kind = "null"
            THEN Throw(<<"TypeError">>)
            ELSE Ok([i \in 1..Len(items) |-> importedStep(items[i], ids[i])])

\* the values crypto.randomUUID can return; it returns none twice
UuidPool == {"uuid-1", "uuid-2", "uuid-3"}

\* reader.onload
ReaderOnLoad ==
  /\ pc = "reading"
  /\ LET count == IF member(fileContent, "steps") # NULL
                     /\ member(fileContent, "steps").kind = "array"
                    THEN Len(member(fileContent, "steps").items) ELSE 0
     IN \E ids \in [1..count -> UuidPool \ uuids] :
          /\ \A i \in 1..count : \A j \in 1..count : ids[i] = ids[j] => i = j
          /\ LET outcome == tryImport(fileContent, ids)
             IN IF outcome.ok
                  THEN /\ promise' = [state |-> "resolved", value |-> outcome.val]
                       /\ uuids' = uuids \cup {ids[i] : i \in 1..count}
                  ELSE /\ promise' = [state |-> "rejected",
                                      error |-> <<"Failed to parse pipeline file">>]
                       /\ UNCHANGED uuids
  /\ pc' = "settled"
  /\ UNCHANGED fileContent
  /\ UNCHANGED <<pipelineVars, registryVars, detectVars, md5Vars, offlineVars, historyVars,
                 pageVars>>

\* reader.onerror
ReaderOnError ==
  /\ pc = "reading"
  /\ promise' = [state |-> "rejected", error |-> <<"Failed to read file">>]
  /\ pc' = "settled"
  /\ UNCHANGED <<fileContent, uuids>>
  /\ UNCHANGED <<pipelineVars, registryVars, detectVars, md5Vars, offlineVars, historyVars,
                 pageVars>>

MaxDocSteps == 2

\* the elements of a document's steps array
DocSteps ==
  { JsonNull, JsonNumber,
    [kind |-> "object", fields |-> <<>>],
    [kind |-> "object",
     fields |-> [transformationId |-> JsonString("base64"),
                 mode |-> JsonString("encode")]],
    [kind |-> "object",
     fields |-> [transformationId |-> JsonString("rot13"),
                 mode |-> JsonString("decode"),
                 options |-> [kind |-> "object", fields |-> <<>>]]],
    [kind |-> "object",
     fields |-> [id |-> JsonString("step-1"),
                 transformationId |-> JsonString("aes"),
                 mode |-> JsonString("decode"),
                 options |-> [kind |-> "object",
                              fields |-> [key |-> JsonString("k")]]]] }

\* what the file may hold
Documents ==
  { [kind |-> "invalid"], JsonNull, JsonNumber,
    [kind |-> "array", items |-> <<>>],
    [kind |-> "object", fields |-> [name |-> JsonString("p")]],
    [kind |-> "object", fields |-> [steps |-> JsonNull]],
    [kind |-> "object", fields |-> [steps |-> JsonString("base64")]],
    [kind |-> "object",
     fields |-> [steps |-> [kind |-> "object", fields |-> <<>>]]] }
  \cup { [kind |-> "object",
          fields |-> [name |-> JsonString("p"),
                      steps |-> [kind |-> "array", items |-> items]]] :
         items \in UNION {[1..n -> DocSteps] : n \in 0..MaxDocSteps} }

InitImport ==
  /\ pc = "reading"
  /\ fileContent \in Documents
  /\ promise = [state |-> "pending"]
  /\ uuids = {}
  /\ pipelineIdle
  /\ registryIdle
  /\ detectIdle
  /\ md5Idle
  /\ offlineIdle
  /\ historyIdle
  /\ pageIdle

NextImport == ReaderOnLoad \/ ReaderOnError

SpecImport == InitImport /\ [][NextImport]_vars

\* C24: importPipeline resolves only for a document with a steps array, and
\* then with one step per document step, in the document's order, with the
\* document's transformationId, mode and options, each under an id that
\* randomUUID generated, that no other step has and that is not the id the
\* document gives the step
C24_Import ==
  pc = "settled" =>
    LET hasSteps == /\ fileContent.kind = "object"
                    /\ "steps" \in DOMAIN fileContent.fields
                    /\ fileContent.fields.steps.kind = "array"
    IN /\ ~hasSteps => promise.state = "rejected"
       /\ promise.state = "resolved" =>
            LET items == fileContent.fields.steps.items
                value == promise.value
            IN /\ Len(value) = Len(items)
               /\ \A i \in 1..Len(items) :
                    /\ value[i].id.kind = "string"
                    /\ value[i].id.val \in uuids
                    /\ \A j \in 1..Len(items) : value[i].id = value[j].id => i = j
                    /\ items[i].kind = "object" =>
                         /\ "id" \in DOMAIN items[i].fields =>
                              value[i].id # items[i].fields.id
                         /\ \A f \in {"transformationId", "mode", "options"} :
                              IF f \in DOMAIN items[i].fields
                                THEN value[i][f] = items[i].fields[f]
                                ELSE value[i][f] = NULL

\* a document of two steps, the second with an id of its own, is imported
C24_Witness ==
  /\ pc = "settled"
  /\ promise.state = "resolved"
  /\ Len(promise.value) = 2
  /\ member(fileContent.fields.steps.items[2], "id") = JsonString("step-1")
  /\ promise.value[2].transformationId = JsonString("aes")
  /\ promise.value[1].transformationId = JsonString("base64")


(***************************************************************************)
(* OfflineIndicator.  The browser fires `online` and `offline` when        *)
(* navigator.onLine changes, so the two events alternate.  Time passes in  *)
(* ticks; a timeout whose time is up runs before the next tick.            *)
(***************************************************************************)
\* setTimeout(..., 3000)
HideDelay == 3000

TickLength == HideDelay \div 3

MaxTimers == 4

\* handleOnline
HandleOnline ==
  /\ pc = "mounted"
  /\ ~isOnline
  /\ Len(timers) < MaxTimers
  /\ isOnline' = TRUE
  /\ showIndicator' = TRUE
  /\ timers' = Append(timers, HideDelay)
  /\ UNCHANGED pc
  /\ UNCHANGED <<pipelineVars, registryVars, detectVars, md5Vars, importVars, historyVars,
                 pageVars>>

\* handleOffline
HandleOffline ==
  /\ pc = "mounted"
  /\ isOnline
  /\ isOnline' = FALSE
  /\ showIndicator' = TRUE
  /\ UNCHANGED <<pc, timers>>
  /\ UNCHANGED <<pipelineVars, registryVars, detectVars, md5Vars, importVars, historyVars,
                 pageVars>>

\* the callback of setTimeout: () => setShowIndicator(false)
TimerExpires ==
  /\ pc = "mounted"
  /\ Len(timers) > 0
  /\ timers[1] = 0
  /\ showIndicator' = FALSE
  /\ timers' = Tail(timers)
  /\ UNCHANGED <<pc, isOnline>>
  /\ UNCHANGED <<pipelineVars, registryVars, detectVars, md5Vars, importVars, historyVars,
                 pageVars>>

\* a second passes
Tick ==
  /\ pc = "mounted"
  /\ Len(timers) > 0
  /\ \A i \in 1..Len(timers) : timers[i] >= TickLength
  /\ timers' = [i \in 1..Len(timers) |-> timers[i] - TickLength]
  /\ UNCHANGED <<pc, isOnline, showIndicator>>
  /\ UNCHANGED <<pipelineVars, registryVars, detectVars, md5Vars, importVars, historyVars,
                 pageVars>>

\* the component once mounted: useState(navigator.onLine), useState(false)
\* and the effect's setShowIndicator(true) when navigator.onLine is false
InitOffline ==
  /\ pc = "mounted"
  /\ isOnline \in BOOLEAN
  /\ showIndicator = ~isOnline
  /\ timers = <<>>
  /\ pipelineIdle
  /\ registryIdle
  /\ detectIdle
  /\ md5Idle
  /\ importIdle
  /\ historyIdle
  /\ pageIdle

NextOffline == HandleOnline \/ HandleOffline \/ TimerExpires \/ Tick

SpecOffline == InitOffline /\ [][NextOffline]_vars

\* C29: while the browser is offline the indicator is shown
C29_OfflineShown == (pc = "mounted" /\ ~isOnline) => showIndicator


(***************************************************************************)
(* The history store (storage) and the HistoryPanel component.  The panel  *)
(* is open.  An asynchronous call is a record of `pending` from the moment *)
(* it is made until its continuation has run; pending calls complete in    *)
(* any order.  A call made from a handler carries the searchQuery and      *)
(* activeTab of the render the handler belongs to.                         *)
(***************************************************************************)
\* s.toLowerCase() on the letters A-Z
toLowerCase(s) ==
  [i \in 1..Len(s) |-> IF s[i] >= 65 /\ s[i] <= 90 THEN s[i] + 32 ELSE s[i]]

\* the records of a store in the order of index.openCursor(null, 'prev') on
\* the timestamp index, for records of distinct timestamps
RECURSIVE newestFirst(_)
newestFirst(store) ==
  IF store = {} THEN <<>>
  ELSE LET e == CHOOSE e \in store : \A f \in store : f.timestamp <= e.timestamp
       IN <<e>> \o newestFirst(store \ {e})

\* filter(list, keep): the elements of list whose position is in keep
RECURSIVE filtered(_, _, _)
filtered(list, keep, i) ==
  IF i > Len(list) THEN <<>>
  ELSE (IF i \in keep THEN <<list[i]>> ELSE <<>>) \o filtered(list, keep, i + 1)

getHistory(store, limit) ==
  LET all == newestFirst(store)
  IN Ok(SubSeq(all, 1, IF Len(all) < limit THEN Len(all) ELSE limit))

\* for a query that is not empty
searchHistory(store, query) ==
  LET history == getHistory(store, 1000).val
      lowerQuery == toLowerCase(query)
      keep == {i \in 1..Len(history) :
                 \/ includes(toLowerCase(history[i].input), lowerQuery)
                 \/ includes(toLowerCase(history[i].output), lowerQuery)
                 \/ \E k \in 1..Len(history[i].pipeline) :
                      includes(toLowerCase(history[i].pipeline[k]), lowerQuery)}
  IN Ok(filtered(history, keep, 1))

\* IDBKeyRange.only(true) throws: a boolean is not a valid IndexedDB key
getFavorites(store) == Throw(<<"DataError">>)

\* the body of the try block of loadEntries: the error caught or the
\* argument of setEntries
tryLoad(store, query, tab) ==
  IF Len(query) > 0
    THEN LET found == searchHistory(store, query).val
         IN IF tab = "favorites"
              THEN Ok(filtered(found,
                               {i \in 1..Len(found) : found[i].favorite}, 1))
              ELSE Ok(found)
  ELSE IF tab = "favorites" THEN getFavorites(store)
  ELSE getHistory(store, 100)

MaxPending == 2

\* "ROT13"
NameRot13 == <<82, 79, 84, 49, 51>>

\* the records the store may hold when the panel opens: input "a" and input
\* "b", each run through ROT13, either one a favorite or not
StoredEntries ==
  { [id |-> "e1", timestamp |-> 1, input |-> <<97>>, output |-> <<110>>,
     pipeline |-> <<NameRot13>>, favorite |-> f] : f \in BOOLEAN }
  \cup
  { [id |-> "e2", timestamp |-> 2, input |-> <<98>>, output |-> <<111>>,
     pipeline |-> <<NameRot13>>, favorite |-> f] : f \in BOOLEAN }

\* "", "a", "B" and "rot"
Queries == {<<>>, <<97>>, <<66>>, <<114, 111, 116>>}

\* loadEntries() up to its await
startLoad(query, tab) == [kind |-> "load", query |-> query, tab |-> tab,
                          phase |-> "called"]

\* typing in the search box; the effect then calls the new loadEntries
SetSearchQuery ==
  /\ pc = "open"
  /\ Cardinality(pending) < MaxPending
  /\ \E q \in Queries :
       /\ q # searchQuery
       /\ searchQuery' = q
       /\ pending' = pending \cup {startLoad(q, activeTab)}
  /\ loading' = TRUE
  /\ UNCHANGED <<pc, historyStore, entries, activeTab>>
  /\ UNCHANGED <<pipelineVars, registryVars, detectVars, md5Vars, importVars,
                 offlineVars, pageVars>>

\* choosing a tab; the effect then calls the new loadEntries
SetActiveTab ==
  /\ pc = "open"
  /\ Cardinality(pending) < MaxPending
  /\ \E t \in {"all", "favorites"} :
       /\ t # activeTab
       /\ activeTab' = t
       /\ pending' = pending \cup {startLoad(searchQuery, t)}
  /\ loading' = TRUE
  /\ UNCHANGED <<pc, historyStore, entries, searchQuery>>
  /\ UNCHANGED <<pipelineVars, registryVars, detectVars, md5Vars, importVars,
                 offlineVars, pageVars>>

\* the transaction of a pending load reads the store
LoadRead ==
  /\ pc = "open"
  /\ \E p \in pending :
       /\ p.kind = "load"
       /\ p.phase = "called"
       /\ pending' = (pending \ {p})
            \cup {[kind |-> "load", query |-> p.query, tab |-> p.tab,
                   phase |-> "read",
                   outcome |-> tryLoad(historyStore, p.query, p.tab)]}
  /\ UNCHANGED <<pc, historyStore, entries, searchQuery, activeTab, loading>>
  /\ UNCHANGED <<pipelineVars, registryVars, detectVars, md5Vars, importVars,
                 offlineVars, pageVars>>

\* loadEntries after its await: setEntries or the catch block, then
\* setLoading(false)
LoadDone ==
  /\ pc = "open"
  /\ \E p \in pending :
       /\ p.kind = "load"
       /\ p.phase = "read"
       /\ entries' = IF p.outcome.ok THEN p.outcome.val ELSE entries
       /\ pending' = pending \ {p}
  /\ loading' = FALSE
  /\ UNCHANGED <<pc, historyStore, searchQuery, activeTab>>
  /\ UNCHANGED <<pipelineVars, registryVars, detectVars, md5Vars, importVars,
                 offlineVars, pageVars>>

\* handleToggleFavorite up to its await, on the star of a displayed entry
HandleToggleFavorite ==
  /\ pc = "open"
  /\ Cardinality(pending) < MaxPending
  /\ \E i \in 1..Len(entries) :
       pending' = pending \cup {[kind |-> "toggle", id |-> entries[i].id,
                                 query |-> searchQuery, tab |-> activeTab]}
  /\ UNCHANGED <<pc, historyStore, entries, searchQuery, activeTab, loading>>
  /\ UNCHANGED <<pipelineVars, registryVars, detectVars, md5Vars, importVars,
                 offlineVars, pageVars>>

\* toggleFavorite's transaction, then handleToggleFavorite after its await;
\* 'Entry not found' is thrown out of the handler
ToggleFavoriteDone ==
  /\ pc = "open"
  /\ \E p \in pending :
       /\ p.kind = "toggle"
       /\ IF \E e \in historyStore : e.id = p.id
            THEN LET entry == CHOOSE e \in historyStore : e.id = p.id
                 IN /\ historyStore' = (historyStore \ {entry})
                         \cup {[entry EXCEPT !.favorite = ~entry.favorite]}
                    /\ pending' = (pending \ {p}) \cup {startLoad(p.query, p.tab)}
                    /\ loading' = TRUE
            ELSE /\ pending' = pending \ {p}
                 /\ UNCHANGED <<historyStore, loading>>
  /\ UNCHANGED <<pc, entries, searchQuery, activeTab>>
  /\ UNCHANGED <<pipelineVars, registryVars, detectVars, md5Vars, importVars,
                 offlineVars, pageVars>>

\* handleClearHistory up to its await; confirm() returns what the user chose
HandleClearHistory ==
  /\ pc = "open"
  /\ Cardinality(pending) < MaxPending
  /\ \E confirmed \in BOOLEAN :
       pending' = IF confirmed
                    THEN pending \cup {[kind |-> "clear", query |-> searchQuery,
                                        tab |-> activeTab]}
                    ELSE pending
  /\ UNCHANGED <<pc, historyStore, entries, searchQuery, activeTab, loading>>
  /\ UNCHANGED <<pipelineVars, registryVars, detectVars, md5Vars, importVars,
                 offlineVars, pageVars>>

\* clearHistory's store.clear(), then handleClearHistory after its await
ClearHistoryDone ==
  /\ pc = "open"
  /\ \E p \in pending :
       /\ p.kind = "clear"
       /\ pending' = (pending \ {p}) \cup {startLoad(p.query, p.tab)}
  /\ historyStore' = {}
  /\ loading' = TRUE
  /\ UNCHANGED <<pc, entries, searchQuery, activeTab>>
  /\ UNCHANGED <<pipelineVars, registryVars, detectVars, md5Vars, importVars,
                 offlineVars, pageVars>>

\* the panel has just been opened: useState([]), '' and 'all', and the
\* effect has called loadEntries
InitHistory ==
  /\ pc = "open"
  /\ historyStore \in {S \in SUBSET StoredEntries :
                         \A e \in S : \A f \in S : e.id = f.id => e = f}
  /\ entries = <<>>
  /\ searchQuery = <<>>
  /\ activeTab = "all"
  /\ loading = TRUE
  /\ pending = {startLoad(<<>>, "all")}
  /\ pipelineIdle
  /\ registryIdle
  /\ detectIdle
  /\ md5Idle
  /\ importIdle
  /\ offlineIdle
  /\ pageIdle

NextHistory ==
  \/ SetSearchQuery
  \/ SetActiveTab
  \/ LoadRead
  \/ LoadDone
  \/ HandleToggleFavorite
  \/ ToggleFavoriteDone
  \/ HandleClearHistory
  \/ ClearHistoryDone

SpecHistory == InitHistory /\ [][NextHistory]_vars

\* C26: when a confirmed handleClearHistory has had its clearHistory
\* completed, getFavorites returns every entry that was a favorite before
C26_FavoritesKept ==
  [][ (\E p \in pending : p.kind = "clear" /\ p \notin pending')
        => \A e \in historyStore :
             e.favorite =>
               /\ getFavorites(historyStore').ok
               /\ \E i \in 1..Len(getFavorites(historyStore').val) :
                    getFavorites(historyStore').val[i] = e ]_vars

\* C28: once no call is pending, the entries displayed are the ones that
\* loadEntries sets for the current searchQuery and activeTab
C28_LatestQueryShown ==
  (pc = "open" /\ pending = {}) =>
    LET latest == tryLoad(historyStore, searchQuery, activeTab)
    IN latest.ok => entries = latest.val


(***************************************************************************)
(* The Index page.  carrierText stays '' (no step of the pipelines         *)
(* explored is a zero-width encode), so every call of executePipeline is   *)
(* on `pipeline` itself.                                                   *)
(***************************************************************************)
\* executePipeline(value, list).finalOutput, from step i on
RECURSIVE finalOutputFrom(_, _, _)
finalOutputFrom(value, list, i) ==
  IF i > Len(list) THEN value
  ELSE LET transformation == getTransformation(list[i].transformationId)
       IN IF transformation = NULL
            THEN finalOutputFrom(value, list, i + 1)
            ELSE finalOutputFrom(
                   nextValue(value, tryStep(transformation, list[i], value)),
                   list, i + 1)

\* the useMemo `finalOutput`
memoFinalOutput ==
  IF Len(pageInput) = 0 \/ Len(pipeline) = 0 THEN <<>>
  ELSE finalOutputFrom(pageInput, pipeline, 1)

\* value={output || finalOutput} of the Output box
outputBox == IF Len(pageOutput) > 0 THEN pageOutput ELSE memoFinalOutput

\* the code units of the names of the registry that the page stores
nameText(name) ==
  CASE name = "ROT13" -> NameRot13
    [] name = "Reverse" -> <<82, 101, 118, 101, 114, 115, 101>>

MaxPageSteps == 2

MaxStored == 1

\* "", "ab"
PageTexts == {<<>>, <<97, 98>>}

\* what the grid offers: the arguments of handleAddTransformation
PageChoices == {<<"rot13", "encode">>, <<"reverse", "encode">>}

\* values of Math.random().toString(36).substring(2, 9)
GeneratedIds == {"k2j8x1q", "4fzyw09"}

\* onChange of the Input box
SetInput ==
  /\ pc = "page"
  /\ \E t \in PageTexts : pageInput' = t
  /\ UNCHANGED <<pc, pageOutput, pipeline>>
  /\ UNCHANGED <<pipelineVars, registryVars, detectVars, md5Vars, importVars,
                 offlineVars, historyVars>>

HandleAddTransformation ==
  /\ pc = "page"
  /\ Len(pipeline) < MaxPageSteps
  /\ \E choice \in PageChoices : \E id \in GeneratedIds :
       pipeline' = Append(pipeline,
                          [id |-> id, transformationId |-> choice[1],
                           mode |-> choice[2]])
  /\ UNCHANGED <<pc, pageInput, pageOutput>>
  /\ UNCHANGED <<pipelineVars, registryVars, detectVars, md5Vars, importVars,
                 offlineVars, historyVars>>

\* the click on the cross of a displayed step
HandleRemoveStep ==
  /\ pc = "page"
  /\ \E k \in 1..Len(pipeline) :
       LET stepId == pipeline[k].id
       IN pipeline' = filtered(pipeline,
                               {i \in 1..Len(pipeline) : pipeline[i].id # stepId},
                               1)
  /\ UNCHANGED <<pc, pageInput, pageOutput>>
  /\ UNCHANGED <<pipelineVars, registryVars, detectVars, md5Vars, importVars,
                 offlineVars, historyVars>>

\* onReorder={setPipeline}: Reorder.Group hands over the steps with a
\* dragged step moved past its neighbour
Reorder ==
  /\ pc = "page"
  /\ \E k \in 1..(Len(pipeline) - 1) :
       pipeline' = [pipeline EXCEPT ![k] = pipeline[k + 1],
                                    ![k + 1] = pipeline[k]]
  /\ UNCHANGED <<pc, pageInput, pageOutput>>
  /\ UNCHANGED <<pipelineVars, registryVars, detectVars, md5Vars, importVars,
                 offlineVars, historyVars>>

\* handleExecute; store.add fails when the store is full, and then the
\* catch block logs the error
HandleExecute ==
  /\ pc = "page"
  /\ IF Len(pageInput) = 0 \/ Len(pipeline) = 0
       THEN UNCHANGED <<pageOutput, historyStore, uuids>>
       ELSE LET result == finalOutputFrom(pageInput, pipeline, 1)
            IN /\ pageOutput' = result
               /\ IF Cardinality(historyStore) < MaxStored
                    THEN \E id \in UuidPool \ uuids :
                           /\ uuids' = uuids \cup {id}
                           /\ historyStore' = historyStore \cup
                                {[id |-> id,
                                  timestamp |-> Cardinality(historyStore) + 1,
                                  input |-> pageInput,
                                  output |-> result,
                                  pipeline |->
                                    [i \in 1..Len(pipeline) |->
                                       nameText(getTransformation(
                                         pipeline[i].transformationId).name)],
                                  favorite |-> FALSE]}
                    ELSE UNCHANGED <<historyStore, uuids>>
  /\ UNCHANGED <<pc, pageInput, pipeline>>
  /\ UNCHANGED <<fileContent, promise, entries, searchQuery, activeTab, loading,
                 pending>>
  /\ UNCHANGED <<pipelineVars, registryVars, detectVars, md5Vars, offlineVars>>

HandleSwap ==
  /\ pc = "page"
  /\ LET textToSwap == outputBox
     IN IF Len(textToSwap) = 0
          THEN UNCHANGED <<pageInput, pageOutput>>
          ELSE /\ pageInput' = textToSwap
               /\ pageOutput' = <<>>
  /\ UNCHANGED <<pc, pipeline>>
  /\ UNCHANGED <<pipelineVars, registryVars, detectVars, md5Vars, importVars,
                 offlineVars, historyVars>>

HandleClear ==
  /\ pc = "page"
  /\ pageInput' = <<>>
  /\ pageOutput' = <<>>
  /\ pipeline' = <<>>
  /\ UNCHANGED pc
  /\ UNCHANGED <<pipelineVars, registryVars, detectVars, md5Vars, importVars,
                 offlineVars, historyVars>>

\* the page as first rendered
InitPage ==
  /\ pc = "page"
  /\ pageInput = <<>>
  /\ pageOutput = <<>>
  /\ pipeline = <<>>
  /\ pipelineIdle
  /\ registryIdle
  /\ detectIdle
  /\ md5Idle
  /\ importIdle
  /\ offlineIdle
  /\ historyIdle

NextPage ==
  \/ SetInput
  \/ HandleAddTransformation
  \/ HandleRemoveStep
  \/ Reorder
  \/ HandleExecute
  \/ HandleSwap
  \/ HandleClear

SpecPage == InitPage /\ [][NextPage]_vars

\* C25: the ids of the steps of the page's pipeline are pairwise distinct
C25_DistinctIds ==
  pc = "page" =>
    \A i \in 1..Len(pipeline) : \A j \in 1..Len(pipeline) :
      pipeline[i].id = pipeline[j].id => i = j

\* C27: the Output box shows the finalOutput of the current pipeline on the
\* current input, and nothing when the input or the pipeline is empty
C27_OutputBoxCurrent ==
  pc = "page" =>
    outputBox = IF Len(pageInput) = 0 \/ Len(pipeline) = 0 THEN <<>>
                ELSE finalOutputFrom(pageInput, pipeline, 1)

====
